---- MODULE Spec2Model ----
(***************************************************************************)
(* The cache synchronizer of the client: the "raw" gateway handler of      *)
(* Client (src/src/Client.ts), one action per event kind, over the entity  *)
(* store (guildChannels, dmChannels, guilds, users) and the notifications  *)
(* the handler emits.                                                      *)
(*                                                                         *)
(* JavaScript values are modelled as follows.  A Map is a function whose   *)
(* DOMAIN is its key set.  undefined is the record Absent.  A value that   *)
(* may be an object or a bare snowflake carries the snowflake as           *)
(* Snowflake(id).  A handler that raises a TypeError (a property read on   *)
(* undefined, a non-iterable given to new Map) ends at that statement: the *)
(* mutations made before it stay, nothing is emitted, and threw is TRUE.   *)
(***************************************************************************)
EXTENDS Integers, Sequences, FiniteSets, TLC

VARIABLES
    guildChannels,  \* Client.guildChannels : Map<Snowflake, GuildChannels>
    dmChannels,     \* Client.dmChannels    : Map<Snowflake, DMChannels>
    guilds,         \* Client.guilds        : Map<Snowflake, GatewayGuild>
    users,          \* Client.users         : Map<Snowflake, User>
    user,           \* Client.user          : PrivateUser | undefined
    lastEvent,      \* the event the handler ran on last
    before,         \* the container that run read first (the channel, the guild,
                    \* the client's user), as it was before the run
    emitted,        \* the notifications that run of the handler emitted
    threw,          \* whether that run of the handler raised
    recorder,       \* the recording of the shard's event sequence and its replay
    rest,           \* Client.rest : RestClient, with the call of request in progress
    gateway         \* Client.gateway : ShardManager, its Sessions and identify gate

vars == <<guildChannels, dmChannels, guilds, users, user, lastEvent, before, emitted,
          threw, recorder, rest, gateway>>

store == <<guildChannels, dmChannels, guilds, users>>

----------------------------------------------------------------------------
(* Bounds of the model *)

\* reaction counts are kept within -MaxCount .. MaxCount
MaxCount == 2

\* guild emoji ids are the first MaxEmojis letters
MaxEmojis == 3

\* a recorded event sequence holds at most MaxLog events
MaxLog == 4

\* the number of failed resume attempts after which a Session identifies anew
ResumeBudget == 2

\* the cap of the exponent n of Backoff(n)
MaxBackoff == 1

\* the last sequence number a connection delivers in the model
MaxSequence == 1

\* the shards of the Shard Manager (shardAmount = 2)
Shards == {0, 1}

\* the snowflakes the gateway's payloads are drawn from
ChannelIds == {1, 2}

MessageIds == {1}

UserIds == {1, 2}

----------------------------------------------------------------------------
(* JavaScript values *)

Absent == [undefined |-> TRUE]

Null == "null"

Snowflake(id) == [snowflake |-> id]

EmptyMap == <<>>

MapHas(m, k) == k \in DOMAIN m

MapGet(m, k) == IF k \in DOMAIN m THEN m[k] ELSE Absent

MapSetIfPresent(m, k, v) == [x \in DOMAIN m |-> IF x = k THEN v ELSE m[x]]

MapSetOnce(m, k, v) == [x \in DOMAIN m \cup {k} |-> IF x \in DOMAIN m THEN m[x] ELSE v]

MapSet(m, k, v) == [x \in DOMAIN m \cup {k} |-> IF x = k THEN v ELSE m[x]]

MapKeep(m, k) == m

MapDelete(m, k) == [x \in DOMAIN m \ {k} |-> m[x]]

\* message || e.data.message_id
OrElseNothing(value, other) == value

OrElseOther(value, other) == other

OrElse(value, other) == IF value # Absent THEN value ELSE other

\* if (e.data.guild_id)
HasGuildId(d) == "guild_id" \in DOMAIN d

GuildIdOf(d) == IF HasGuildId(d) THEN Snowflake(d.guild_id) ELSE Absent

Notification(name, args) == [name |-> name, args |-> args]

Event(name, d) == [name |-> name, data |-> d]

NoEvent == Event("", Absent)

----------------------------------------------------------------------------
(* The payload -> entity constructors (structures/*.ts) *)

PrivateUser(d) == [id |-> d.id]

User(d) == [id |-> d.id, username |-> d.username]

\* a text-based channel owns a message cache; the other kinds have none
TextChannel(d) ==
    [id |-> d.id, type |-> "text", guildId |-> GuildIdOf(d), name |-> d.name,
     messages |-> EmptyMap]

DMChannel(d) ==
    [id |-> d.id, type |-> "DM", guildId |-> GuildIdOf(d), name |-> d.name,
     messages |-> EmptyMap]

VoiceChannel(d) ==
    [id |-> d.id, type |-> "voice", guildId |-> GuildIdOf(d), name |-> d.name]

GroupDMChannel(d) ==
    [id |-> d.id, type |-> "groupDM", guildId |-> GuildIdOf(d), name |-> d.name,
     messages |-> EmptyMap]

CategoryChannel(d) ==
    [id |-> d.id, type |-> "category", guildId |-> GuildIdOf(d), name |-> d.name]

NewsChannel(d) ==
    [id |-> d.id, type |-> "news", guildId |-> GuildIdOf(d), name |-> d.name,
     messages |-> EmptyMap]

StoreChannel(d) ==
    [id |-> d.id, type |-> "store", guildId |-> GuildIdOf(d), name |-> d.name]

Message(d) ==
    [id |-> d.id, channelId |-> d.channel_id, guildId |-> GuildIdOf(d),
     content |-> d.content, reactions |-> EmptyMap]

\* channel.messages is undefined on a channel that is not text based
HasMessages(channel) == channel # Absent /\ "messages" \in DOMAIN channel

newChannelSwitch(d) ==
    CASE d.type = 0 -> TextChannel(d)
      [] d.type = 1 -> DMChannel(d)
      [] d.type = 2 -> VoiceChannel(d)
      [] d.type = 3 -> GroupDMChannel(d)
      [] d.type = 4 -> CategoryChannel(d)
      [] d.type = 5 -> NewsChannel(d)
      [] d.type = 6 -> StoreChannel(d)

IsDMOnly(channel) == channel.type = "DM"

IsDMType(channel) == channel.type = "DM" \/ channel.type = "groupDM"

----------------------------------------------------------------------------
(* How a run of the handler ends *)

\* The recorder.  While it is "off" nothing is recorded.  While it is "live"
\* every event the handler runs on is appended to log, except RESUMED and
\* RECONNECT, which the gateway dispatches about the connection and which are
\* no part of the sequence a resume replays.  While it is "replay" a fresh
\* store is fed the recorded sequence: the handler runs on the head of log and
\* on nothing else, and live holds the store the live run had reached.
\* interruptedAfter holds the sequence number (the length of log) after which
\* the live run was first interrupted, that is, saw a RESUMED or a RECONNECT.
NotRecording == [phase |-> "off", log |-> <<>>, live |-> Absent, interruptedAfter |-> {}]

Recording == [phase |-> "live", log |-> <<>>, live |-> Absent, interruptedAfter |-> {}]

Recorded(ev) ==
    CASE recorder.phase = "off" -> UNCHANGED recorder
      [] recorder.phase = "live" ->
            IF ev.name \in {"RESUMED", "RECONNECT"}
            THEN recorder' = [recorder EXCEPT
                                 !.interruptedAfter =
                                     IF @ = {} THEN {Len(recorder.log)} ELSE @]
            ELSE /\ Len(recorder.log) < MaxLog
                 /\ recorder' = [recorder EXCEPT !.log = Append(@, ev)]
      [] recorder.phase = "replay" ->
            /\ recorder.log # <<>>
            /\ ev = Head(recorder.log)
            /\ recorder' = [recorder EXCEPT !.log = Tail(@)]

Completes(ev, container, notifications) ==
    /\ lastEvent' = ev
    /\ before' = container
    /\ emitted' = notifications
    /\ threw' = FALSE
    /\ Recorded(ev)
    /\ UNCHANGED <<rest, gateway>>

Throws(ev, container) ==
    /\ lastEvent' = ev
    /\ before' = container
    /\ emitted' = <<>>
    /\ threw' = TRUE
    /\ Recorded(ev)
    /\ UNCHANGED <<rest, gateway>>

\* READY is the first dispatch of a session: no other event precedes it
Connected == user # Absent

\* rest = new RestClient(): the token is "" and request has not been called.
\* phase is the position of the call of request: "idle" before the first
\* call, "fetching" at "await fetch(...)", "settled" once it returned or
\* raised.  request is what the call gave to fetch, fetches the number of
\* times the call called fetch, response what fetch resolved to, outcome what
\* the call returned or raised.  connect is the position of Client.connect.
NewRestClient ==
    [token |-> "", connect |-> "idle", phase |-> "idle", request |-> Absent,
     fetches |-> 0, response |-> Absent, outcome |-> Absent]

\* The Sessions as the Shard Manager creates them.  sessionId and sequence are the
\* last known session id and sequence, acked whether the last heartbeat sent
\* was acknowledged, attempts the failed resume attempts since the connection
\* was lost, backoff the n of Backoff(n), identify whether an identify is in
\* flight and in which window it was sent ("none", "thisWindow",
\* "earlierWindow"), resume the resume request sent, last the last step taken.
\* this.gateway = new ShardManager(shardAmount, newIntents); gate is the shared
\* identify gate, "open" until an identify is sent in the current window.
NewShardManager ==
    [sessions |->
        [s \in Shards |->
            [state |-> "Disconnected", sessionId |-> Absent, sequence |-> 0,
             acked |-> TRUE, attempts |-> 0, backoff |-> 0, identify |-> "none",
             resume |-> Absent, last |-> "new"]],
     gate |-> "open"]

\* a client as its constructor leaves it, before any event
Fresh ==
    /\ gateway = NewShardManager
    /\ rest = NewRestClient
    /\ guildChannels = EmptyMap
    /\ dmChannels = EmptyMap
    /\ guilds = EmptyMap
    /\ users = EmptyMap
    /\ user = Absent
    /\ lastEvent = NoEvent
    /\ before = Absent
    /\ emitted = <<>>
    /\ threw = FALSE

Init == Fresh /\ recorder = NotRecording

----------------------------------------------------------------------------
(* READY, RESUMED, RECONNECT *)

Ready(d) ==
    /\ user' = PrivateUser(d.user)
    /\ UNCHANGED store
    /\ Completes(Event("READY", d), user, <<Notification("shardReady", <<d.shard>>)>>)

ResumedClearsStore(d) ==
    /\ Connected
    /\ guildChannels' = EmptyMap
    /\ dmChannels' = EmptyMap
    /\ guilds' = EmptyMap
    /\ users' = EmptyMap
    /\ UNCHANGED user
    /\ Completes(Event("RESUMED", d), Absent, <<>>)

\* case "RESUMED": break;
Resumed(d) ==
    /\ Connected
    /\ UNCHANGED <<store, user>>
    /\ Completes(Event("RESUMED", d), Absent, <<>>)

\* case "RECONNECT": break;
Reconnect(d) ==
    /\ Connected
    /\ UNCHANGED <<store, user>>
    /\ Completes(Event("RECONNECT", d), Absent, <<>>)

----------------------------------------------------------------------------
(* CHANNEL_CREATE, CHANNEL_UPDATE *)

ChannelCreate(d) ==
    /\ Connected
    /\ LET channel == newChannelSwitch(d)
       IN  /\ IF IsDMType(channel)
              THEN /\ dmChannels' = MapSet(dmChannels, channel.id, channel)
                   /\ UNCHANGED guildChannels
              ELSE /\ guildChannels' = MapSet(guildChannels, channel.id, channel)
                   /\ UNCHANGED dmChannels
           /\ UNCHANGED <<guilds, users, user>>
           /\ Completes(Event("CHANNEL_CREATE", d),
                        MapGet(IF IsDMType(channel) THEN dmChannels ELSE guildChannels,
                               channel.id),
                        <<Notification("channelCreate", <<channel>>)>>)

ChannelUpdate(d) ==
    /\ Connected
    /\ LET newChannel == newChannelSwitch(d)
           oldChannel == IF IsDMType(newChannel)
                         THEN MapGet(dmChannels, d.id)
                         ELSE MapGet(guildChannels, d.id)
       IN  /\ IF IsDMType(newChannel)
              THEN /\ dmChannels' = MapSet(dmChannels, newChannel.id, newChannel)
                   /\ UNCHANGED guildChannels
              ELSE /\ guildChannels' = MapSet(guildChannels, newChannel.id, newChannel)
                   /\ UNCHANGED dmChannels
           /\ UNCHANGED <<guilds, users, user>>
           /\ Completes(Event("CHANNEL_UPDATE", d), oldChannel,
                        <<Notification("channelUpdate", <<oldChannel, newChannel>>)>>)

\* the channel emitted is the one rebuilt from the payload, not the cached one
ChannelDelete(d) ==
    /\ Connected
    /\ LET channel == newChannelSwitch(d)
       IN  /\ IF IsDMType(channel)
              THEN /\ dmChannels' = MapDelete(dmChannels, channel.id)
                   /\ UNCHANGED guildChannels
              ELSE /\ guildChannels' = MapDelete(guildChannels, channel.id)
                   /\ UNCHANGED dmChannels
           /\ UNCHANGED <<guilds, users, user>>
           /\ Completes(Event("CHANNEL_DELETE", d),
                        MapGet(IF IsDMType(channel) THEN dmChannels ELSE guildChannels,
                               channel.id),
                        <<Notification("channelDelete", <<channel>>)>>)

----------------------------------------------------------------------------
(* MESSAGE_CREATE, MESSAGE_UPDATE, MESSAGE_DELETE                           *)
(* Each handler has a guild branch (the payload carries guild_id: the       *)
(* channel is read from and written to guildChannels) and a DM branch       *)
(* (dmChannels) with the same statements.                                   *)

ChannelsFor(d) == IF HasGuildId(d) THEN guildChannels ELSE dmChannels

SetChannels(d, channels) ==
    IF HasGuildId(d)
    THEN guildChannels' = channels /\ UNCHANGED dmChannels
    ELSE dmChannels' = channels /\ UNCHANGED guildChannels

WithMessages(channel, messages) == [channel EXCEPT !.messages = messages]

UnknownMessage(d) ==
    [id |-> d.id, channelId |-> d.channel_id, guildId |-> GuildIdOf(d)]

MessageCreate(d) ==
    /\ Connected
    /\ LET ev == Event("MESSAGE_CREATE", d)
           message == Message(d)
           channel == MapGet(ChannelsFor(d), d.channel_id)
       IN  IF ~HasMessages(channel)
           THEN Throws(ev, channel) /\ UNCHANGED <<store, user>>
           ELSE LET after == WithMessages(channel, MapSet(channel.messages, message.id, message))
                IN  /\ SetChannels(d, MapSet(ChannelsFor(d), after.id, after))
                    /\ UNCHANGED <<guilds, users, user>>
                    /\ Completes(ev, channel, <<Notification("messageCreate", <<after, message>>)>>)

MessageUpdate(d) ==
    /\ Connected
    /\ LET ev == Event("MESSAGE_UPDATE", d)
           newMessage == Message(d)
           channel == MapGet(ChannelsFor(d), d.channel_id)
       IN  IF ~HasMessages(channel)
           THEN Throws(ev, channel) /\ UNCHANGED <<store, user>>
           ELSE LET oldMessage == MapGet(channel.messages, newMessage.id)
                    after == WithMessages(channel,
                                 MapSet(channel.messages, newMessage.id, newMessage))
                IN  /\ SetChannels(d, MapSet(ChannelsFor(d), after.id, after))
                    /\ UNCHANGED <<guilds, users, user>>
                    /\ Completes(ev, channel, <<Notification("messageUpdate",
                                           <<after, oldMessage, newMessage>>)>>)

MessageDelete(d) ==
    /\ Connected
    /\ LET ev == Event("MESSAGE_DELETE", d)
           channel == MapGet(ChannelsFor(d), d.channel_id)
       IN  IF ~HasMessages(channel)
           THEN Throws(ev, channel) /\ UNCHANGED <<store, user>>
           ELSE LET message == MapGet(channel.messages, d.id)
                    after == WithMessages(channel, MapDelete(channel.messages, d.id))
                IN  /\ SetChannels(d, MapSet(ChannelsFor(d), after.id, after))
                    /\ UNCHANGED <<guilds, users, user>>
                    /\ Completes(ev, channel, <<Notification("messageDelete",
                                           <<after, OrElse(message, UnknownMessage(d))>>)>>)

\* for (const id of e.data.ids): the loop reads the message, puts it (or the
\* bare id) into the map it emits, and deletes it from the cache
MessageDeleteBulk(d) ==
    /\ Connected
    /\ LET ev == Event("MESSAGE_DELETE_BULK", d)
           channel == MapGet(ChannelsFor(d), d.channel_id)
           RECURSIVE Loop(_, _, _)
           Loop(cache, messages, ids) ==
               IF ids = <<>>
               THEN [cache |-> cache, messages |-> messages]
               ELSE LET id == Head(ids)
                        message == MapGet(cache, id)
                    IN  Loop(MapDelete(cache, id),
                             MapSet(messages, id, OrElse(message, Snowflake(id))),
                             Tail(ids))
       IN  IF ~HasMessages(channel)
           THEN Throws(ev, channel) /\ UNCHANGED <<store, user>>
           ELSE LET done == Loop(channel.messages, EmptyMap, d.ids)
                    after == WithMessages(channel, done.cache)
                IN  /\ SetChannels(d, MapSet(ChannelsFor(d), after.id, after))
                    /\ UNCHANGED <<guilds, users, user>>
                    /\ Completes(ev, channel, <<Notification("messageDeleteBulk",
                                           <<after, done.messages>>)>>)

----------------------------------------------------------------------------
(* MESSAGE_REACTION_ADD, MESSAGE_REACTION_REMOVE,                           *)
(* MESSAGE_REACTION_REMOVE_ALL, MESSAGE_REACTION_REMOVE_EMOJI               *)

\* e.data.emoji.id ?? e.data.emoji.name!
ReactionKey(emoji) == IF emoji.id # Null THEN emoji.id ELSE emoji.name

WithReactions(message, reactions) == [message EXCEPT !.reactions = reactions]

\* the aggregate MESSAGE_REACTION_ADD stores (both branches)
ReactionAdded(previousReaction, d) ==
    IF previousReaction # Absent
    THEN [count |-> previousReaction.count + 1, emoji |-> d.emoji,
          me |-> d.user_id = user.id \/ previousReaction.me]
    ELSE [count |-> 0, emoji |-> d.emoji, me |-> d.user_id = user.id]

ReactionRemovedKeepsMe(previousReaction, d) ==
    [count |-> previousReaction.count - 1, emoji |-> d.emoji,
     me |-> previousReaction.me]

\* the aggregate MESSAGE_REACTION_REMOVE stores (both branches)
ReactionRemoved(previousReaction, d) ==
    [count |-> previousReaction.count - 1, emoji |-> d.emoji,
     me |-> d.user_id # user.id /\ previousReaction.me]

\* the model follows a count only within -MaxCount .. MaxCount
CountWithinBound(reaction) ==
    reaction.count >= 0 - MaxCount /\ reaction.count <= MaxCount

MessageReactionAdd(d) ==
    /\ Connected
    /\ LET ev == Event("MESSAGE_REACTION_ADD", d)
           reactor == MapGet(users, d.user_id)
           channel == MapGet(ChannelsFor(d), d.channel_id)
       IN  IF ~HasMessages(channel)
           THEN Throws(ev, channel) /\ UNCHANGED <<store, user>>
           ELSE LET message == MapGet(channel.messages, d.message_id)
                IN  IF message = Absent
                    THEN /\ UNCHANGED <<store, user>>
                         /\ Completes(ev, channel, <<Notification("messageReactionAdd",
                               <<channel, OrElse(message, Snowflake(d.message_id)),
                                 d.emoji, reactor>>)>>)
                    ELSE LET key == ReactionKey(d.emoji)
                             reaction == ReactionAdded(MapGet(message.reactions, key), d)
                             newMessage == WithReactions(message,
                                               MapSet(message.reactions, key, reaction))
                             after == WithMessages(channel,
                                          MapSet(channel.messages, message.id, newMessage))
                         IN  /\ CountWithinBound(reaction)
                             /\ SetChannels(d, MapSet(ChannelsFor(d), after.id, after))
                             /\ UNCHANGED <<guilds, users, user>>
                             /\ Completes(ev, channel, <<Notification("messageReactionAdd",
                                   <<after, OrElse(newMessage, Snowflake(d.message_id)),
                                     d.emoji, reactor>>)>>)

\* the guild branch leaves the decremented aggregate in the map; the DM branch
\* sets it and then deletes the key
ReactionsAfterRemove(d, reactions, key, reaction) ==
    IF HasGuildId(d)
    THEN MapSet(reactions, key, reaction)
    ELSE MapDelete(MapSet(reactions, key, reaction), key)

MessageReactionRemove(d) ==
    /\ Connected
    /\ LET ev == Event("MESSAGE_REACTION_REMOVE", d)
           reactor == MapGet(users, d.user_id)
           channel == MapGet(ChannelsFor(d), d.channel_id)
       IN  IF ~HasMessages(channel)
           THEN Throws(ev, channel) /\ UNCHANGED <<store, user>>
           ELSE LET message == MapGet(channel.messages, d.message_id)
                IN  IF message = Absent
                    THEN /\ UNCHANGED <<store, user>>
                         /\ Completes(ev, channel, <<Notification("messageReactionRemove",
                               <<channel, OrElse(message, Snowflake(d.message_id)),
                                 d.emoji, reactor>>)>>)
                    ELSE LET key == ReactionKey(d.emoji)
                             previousReaction == MapGet(message.reactions, key)
                         IN  IF previousReaction = Absent
                             THEN \* --previousReaction.count on undefined
                                  Throws(ev, channel) /\ UNCHANGED <<store, user>>
                             ELSE LET reaction == ReactionRemoved(previousReaction, d)
                                      newMessage == WithReactions(message,
                                          ReactionsAfterRemove(d, message.reactions,
                                                               key, reaction))
                                      after == WithMessages(channel,
                                          MapSet(channel.messages, message.id, newMessage))
                                  IN  /\ CountWithinBound(reaction)
                                      /\ SetChannels(d, MapSet(ChannelsFor(d), after.id, after))
                                      /\ UNCHANGED <<guilds, users, user>>
                                      /\ Completes(ev, channel, <<Notification("messageReactionRemove",
                                            <<after, OrElse(newMessage, Snowflake(d.message_id)),
                                              d.emoji, reactor>>)>>)

MessageReactionRemoveAll(d) ==
    /\ Connected
    /\ LET ev == Event("MESSAGE_REACTION_REMOVE_ALL", d)
           channel == MapGet(ChannelsFor(d), d.channel_id)
       IN  IF ~HasMessages(channel)
           THEN Throws(ev, channel) /\ UNCHANGED <<store, user>>
           ELSE LET message == MapGet(channel.messages, d.message_id)
                IN  IF message = Absent
                    THEN /\ UNCHANGED <<store, user>>
                         /\ Completes(ev, channel, <<Notification("messageReactionRemoveAll",
                               <<channel, OrElse(message, Snowflake(d.message_id))>>)>>)
                    ELSE LET newMessage == WithReactions(message, EmptyMap)
                             after == WithMessages(channel,
                                          MapSet(channel.messages, message.id, newMessage))
                         IN  /\ SetChannels(d, MapSet(ChannelsFor(d), after.id, after))
                             /\ UNCHANGED <<guilds, users, user>>
                             /\ Completes(ev, channel, <<Notification("messageReactionRemoveAll",
                                   <<after, OrElse(newMessage, Snowflake(d.message_id))>>)>>)

MessageReactionRemoveEmoji(d) ==
    /\ Connected
    /\ LET ev == Event("MESSAGE_REACTION_REMOVE_EMOJI", d)
           channel == MapGet(ChannelsFor(d), d.channel_id)
       IN  IF ~HasMessages(channel)
           THEN Throws(ev, channel) /\ UNCHANGED <<store, user>>
           ELSE LET message == MapGet(channel.messages, d.message_id)
                IN  IF message = Absent
                    THEN /\ UNCHANGED <<store, user>>
                         /\ Completes(ev, channel, <<Notification("messageReactionRemoveEmoji",
                               <<channel, OrElse(message, Snowflake(d.message_id)), d.emoji>>)>>)
                    ELSE LET newMessage == WithReactions(message,
                                 MapDelete(message.reactions, ReactionKey(d.emoji)))
                             after == WithMessages(channel,
                                          MapSet(channel.messages, message.id, newMessage))
                         IN  /\ SetChannels(d, MapSet(ChannelsFor(d), after.id, after))
                             /\ UNCHANGED <<guilds, users, user>>
                             /\ Completes(ev, channel, <<Notification("messageReactionRemoveEmoji",
                                   <<after, OrElse(newMessage, Snowflake(d.message_id)),
                                     d.emoji>>)>>)

----------------------------------------------------------------------------
(* Guild entities (structures/Guild.ts, GuildMember.ts, Role.ts, Emoji.ts,  *)
(* Presence.ts).  A payload's array is modelled as the set of its elements; *)
(* the Map built from it is keyed as the handler keys it.                   *)

GuildMember(d, guildId) ==
    [user |-> User(d.user), nick |-> d.nick, roles |-> d.roles,
     guildId |-> guildId, raw |-> d]

Role(d, guildId) == [id |-> d.id, name |-> d.name, guildId |-> guildId]

parseEmoji(d) == [id |-> d.id, name |-> d.name]

parsePresence(d) == [userId |-> d.user.id, status |-> d.status]

\* new Map(array.map(x => [key(x), value(x)]))
MemberMap(array, guildId) ==
    [k \in {x.user.id : x \in array} |->
        GuildMember(CHOOSE x \in array : x.user.id = k, guildId)]

RoleMap(array, guildId) ==
    [k \in {x.id : x \in array} |-> Role(CHOOSE x \in array : x.id = k, guildId)]

EmojiMap(array) ==
    [k \in {x.id : x \in array} |-> parseEmoji(CHOOSE x \in array : x.id = k)]

PresenceMap(array) ==
    [k \in {x.user.id : x \in array} |->
        parsePresence(CHOOSE x \in array : x.user.id = k)]

\* a nested map is built from the payload's list alone; a list the payload
\* does not carry (members and presences of a GUILD_UPDATE) gives an empty map
GatewayGuild(d) ==
    [id |-> d.id, name |-> d.name,
     members |-> IF "members" \in DOMAIN d THEN MemberMap(d.members, d.id) ELSE EmptyMap,
     roles |-> RoleMap(d.roles, d.id),
     presences |-> IF "presences" \in DOMAIN d THEN PresenceMap(d.presences)
                   ELSE EmptyMap,
     emojis |-> EmojiMap(d.emojis)]

----------------------------------------------------------------------------
(* GUILD_CREATE, GUILD_UPDATE *)

GuildCreate(d) ==
    /\ Connected
    /\ LET guild == GatewayGuild(d)
       IN  /\ guildChannels' =
                 [c \in DOMAIN guildChannels \cup {ch.id : ch \in d.channels} |->
                     IF c \in {ch.id : ch \in d.channels}
                     THEN newChannelSwitch(CHOOSE ch \in d.channels : ch.id = c)
                     ELSE guildChannels[c]]
           /\ guilds' = MapSet(guilds, d.id, guild)
           /\ UNCHANGED <<dmChannels, users, user>>
           /\ Completes(Event("GUILD_CREATE", d), MapGet(guilds, d.id),
                        <<Notification("guildCreate", <<guild>>)>>)

\* guildChannels after the first i iterations of
\* "for (const channel of e.data.channels) this.guildChannels.set(...)",
\* channels being the payload's array
GuildChannelsAfter(channels, i) ==
    LET written == {channels[j].id : j \in 1..i}
        lastWrite(c) == CHOOSE j \in 1..i :
                            /\ channels[j].id = c
                            /\ \A k \in (j + 1)..i : channels[k].id # c
    IN  [c \in DOMAIN guildChannels \cup written |->
            IF c \in written
            THEN newChannelSwitch(channels[lastWrite(c)])
            ELSE guildChannels[c]]

GuildFirstStatements(d, channels) ==
    LET n == Len(channels)
        guild == GatewayGuild(d)
    IN  [i \in 1..(n + 2) |->
            [statement |-> IF i = 1 THEN "guilds.set"
                           ELSE IF i <= n + 1 THEN "guildChannels.set" ELSE "emit",
             guildChannels |-> GuildChannelsAfter(channels, IF i <= n + 1 THEN i - 1 ELSE n),
             guilds |-> MapSet(guilds, d.id, guild),
             emitted |-> IF i = n + 2
                         THEN <<Notification("guildCreate", <<guild>>)>>
                         ELSE <<>>]]

\* the handler of GUILD_CREATE statement by statement: what the stores hold and
\* what has been emitted after each statement that writes a store or emits
GuildCreateStatements(d, channels) ==
    LET n == Len(channels)
        guild == GatewayGuild(d)
    IN  [i \in 1..(n + 2) |->
            [statement |-> IF i <= n THEN "guildChannels.set"
                           ELSE IF i = n + 1 THEN "guilds.set" ELSE "emit",
             guildChannels |-> GuildChannelsAfter(channels, IF i <= n THEN i ELSE n),
             guilds |-> IF i <= n THEN guilds ELSE MapSet(guilds, d.id, guild),
             emitted |-> IF i = n + 2
                         THEN <<Notification("guildCreate", <<guild>>)>>
                         ELSE <<>>]]

GuildUpdate(d) ==
    /\ Connected
    /\ LET oldGuild == MapGet(guilds, d.id)
           newGuild == GatewayGuild(d)
       IN  /\ guilds' = MapSet(guilds, d.id, newGuild)
           /\ UNCHANGED <<guildChannels, dmChannels, users, user>>
           /\ Completes(Event("GUILD_UPDATE", d), oldGuild,
                        <<Notification("guildUpdate", <<oldGuild, newGuild>>)>>)

GuildDeleteOrKeep(d) ==
    /\ Connected
    /\ guilds' \in {MapDelete(guilds, d.id), guilds}
    /\ UNCHANGED <<guildChannels, dmChannels, users, user>>
    /\ Completes(Event("GUILD_DELETE", d), MapGet(guilds, d.id),
                 <<Notification("guildDelete", <<d>>)>>)

\* the value emitted is the payload itself (an UnavailableGuild)
GuildDelete(d) ==
    /\ Connected
    /\ guilds' = MapDelete(guilds, d.id)
    /\ UNCHANGED <<guildChannels, dmChannels, users, user>>
    /\ Completes(Event("GUILD_DELETE", d), MapGet(guilds, d.id),
                 <<Notification("guildDelete", <<d>>)>>)

----------------------------------------------------------------------------
(* GUILD_EMOJIS_UPDATE *)

SizeGreaterOrEqual(a, b) == a >= b

\* newEmojis.size > guild.emojis.size
SizeGreater(a, b) == a > b

Size(map) == Cardinality(DOMAIN map)

\* the emoji a loop "for (const [id, emoji] of from) if (!other.has(id)) found = emoji"
\* leaves in found: undefined when no key of from is missing in other
FoundMissing(from, other) ==
    IF DOMAIN from \subseteq DOMAIN other
    THEN Absent
    ELSE from[CHOOSE id \in DOMAIN from \ DOMAIN other : TRUE]

\* the notification chosen after "guild.emojis = newEmojis": guild is the guild
\* as that assignment left it
EmojisNotification(guild, newEmojis) ==
    IF SizeGreater(Size(newEmojis), Size(guild.emojis))
    THEN Notification("guildEmojiCreate", <<guild, FoundMissing(newEmojis, guild.emojis)>>)
    ELSE IF Size(newEmojis) = Size(guild.emojis)
         THEN Notification("guildEmojiUpdate", <<guild>>)
         ELSE Notification("guildEmojiDelete",
                           <<guild, FoundMissing(guild.emojis, newEmojis)>>)

GuildEmojisUpdate(d) ==
    /\ Connected
    /\ LET ev == Event("GUILD_EMOJIS_UPDATE", d)
           guild == MapGet(guilds, d.guild_id)
           newEmojis == EmojiMap(d.emojis)
       IN  IF guild = Absent
           THEN Throws(ev, guild) /\ UNCHANGED <<store, user>>
           ELSE LET assigned == [guild EXCEPT !.emojis = newEmojis]
                IN  /\ guilds' = MapSet(guilds, assigned.id, assigned)
                    /\ UNCHANGED <<guildChannels, dmChannels, users, user>>
                    /\ Completes(ev, guild, <<EmojisNotification(assigned, newEmojis)>>)

----------------------------------------------------------------------------
(* GUILD_MEMBER_ADD, GUILD_MEMBER_UPDATE, GUILD_MEMBERS_CHUNK *)

GuildMemberAdd(d) ==
    /\ Connected
    /\ LET ev == Event("GUILD_MEMBER_ADD", d)
           member == GuildMember(d, d.guild_id)
           guild == MapGet(guilds, d.guild_id)
       IN  IF guild = Absent
           THEN Throws(ev, guild) /\ UNCHANGED <<store, user>>
           ELSE LET after == [guild EXCEPT !.members = MapSet(@, member.user.id, member)]
                IN  /\ guilds' = MapSet(guilds, d.guild_id, after)
                    /\ UNCHANGED <<guildChannels, dmChannels, users, user>>
                    /\ Completes(ev, guild, <<Notification("guildMemberAdd", <<after, member>>)>>)

SpreadUnder(raw, data) == raw @@ data

\* {...oldMember.raw, ...e.data}: a field of e.data overrides the same field of raw
SpreadOver(raw, data) == data @@ raw

GuildMemberUpdate(d) ==
    /\ Connected
    /\ LET ev == Event("GUILD_MEMBER_UPDATE", d)
           guild == MapGet(guilds, d.guild_id)
       IN  IF guild = Absent
           THEN Throws(ev, guild) /\ UNCHANGED <<store, user>>
           ELSE LET oldMember == MapGet(guild.members, d.user.id)
                IN  IF oldMember = Absent
                    THEN \* oldMember.raw on undefined
                         Throws(ev, guild) /\ UNCHANGED <<store, user>>
                    ELSE LET newMember == GuildMember(SpreadOver(oldMember.raw, d), d.guild_id)
                             after == [guild EXCEPT !.members = MapSet(@, d.user.id, newMember)]
                         IN  /\ guilds' = MapSet(guilds, d.guild_id, after)
                             /\ UNCHANGED <<guildChannels, dmChannels, users, user>>
                             /\ Completes(ev, guild, <<Notification("guildMemberUpdate",
                                                   <<after, oldMember, newMember>>)>>)

\* {...guild.members.entries(), ...members.entries()}: an object literal that
\* spreads two Map iterators.  Spreading copies own enumerable properties and an
\* iterator has none, so the literal is the plain object {} whatever the maps hold
SpreadEntries(guildMembers, members) == [plainObject |-> {}]

\* new Map(x) reads x[Symbol.iterator]; a plain object has none (TypeError)
IsIterable(x) == "plainObject" \notin DOMAIN x

GuildMembersChunk(d) ==
    /\ Connected
    /\ LET ev == Event("GUILD_MEMBERS_CHUNK", d)
           guild == MapGet(guilds, d.guild_id)
           members == MemberMap(d.members, d.guild_id)
       IN  IF guild = Absent
           THEN Throws(ev, guild) /\ UNCHANGED <<store, user>>
           ELSE LET entries == SpreadEntries(guild.members, members)
                IN  IF ~IsIterable(entries)
                    THEN Throws(ev, guild) /\ UNCHANGED <<store, user>>
                    ELSE LET after == [guild EXCEPT !.members = entries]
                         IN  /\ guilds' = MapSet(guilds, d.guild_id, after)
                             /\ UNCHANGED <<guildChannels, dmChannels, users, user>>
                             /\ Completes(ev, guild, <<Notification("guildMembersChunk",
                                                   <<after, members>>)>>)

----------------------------------------------------------------------------
(* GUILD_ROLE_CREATE, PRESENCE_UPDATE *)

GuildRoleCreate(d) ==
    /\ Connected
    /\ LET ev == Event("GUILD_ROLE_CREATE", d)
           guild == MapGet(guilds, d.guild_id)
           role == Role(d.role, d.guild_id)
       IN  IF guild = Absent
           THEN Throws(ev, guild) /\ UNCHANGED <<store, user>>
           ELSE LET after == [guild EXCEPT !.roles = MapSet(@, d.role.id, role)]
                IN  /\ guilds' = MapSet(guilds, d.guild_id, after)
                    /\ UNCHANGED <<guildChannels, dmChannels, users, user>>
                    /\ Completes(ev, guild, <<Notification("guildRoleCreate", <<after, role>>)>>)

PresenceUpdate(d) ==
    /\ Connected
    /\ LET ev == Event("PRESENCE_UPDATE", d)
           guild == MapGet(guilds, d.guild_id)
       IN  IF guild = Absent
           THEN Throws(ev, guild) /\ UNCHANGED <<store, user>>
           ELSE LET oldPresence == MapGet(guild.presences, d.user.id)
                    newPresence == parsePresence(d)
                    after == [guild EXCEPT !.presences = MapSet(@, d.user.id, newPresence)]
                IN  /\ guilds' = MapSet(guilds, d.guild_id, after)
                    /\ UNCHANGED <<guildChannels, dmChannels, users, user>>
                    /\ Completes(ev, guild, <<Notification("presenceUpdate",
                                          <<after, oldPresence, newPresence>>)>>)

----------------------------------------------------------------------------
(* GUILD_MEMBER_REMOVE, GUILD_ROLE_UPDATE, GUILD_ROLE_DELETE *)

GuildMemberRemove(d) ==
    /\ Connected
    /\ LET ev == Event("GUILD_MEMBER_REMOVE", d)
           guild == MapGet(guilds, d.guild_id)
       IN  IF guild = Absent
           THEN Throws(ev, guild) /\ UNCHANGED <<store, user>>
           ELSE LET member == MapGet(guild.members, d.user.id)
                    after == [guild EXCEPT !.members = MapDelete(@, d.user.id)]
                IN  /\ guilds' = MapSet(guilds, d.guild_id, after)
                    /\ UNCHANGED <<guildChannels, dmChannels, users, user>>
                    /\ Completes(ev, guild,
                                 <<Notification("guildMemberRemove", <<after, member>>)>>)

GuildRoleUpdate(d) ==
    /\ Connected
    /\ LET ev == Event("GUILD_ROLE_UPDATE", d)
           guild == MapGet(guilds, d.guild_id)
           role == Role(d.role, d.guild_id)
       IN  IF guild = Absent
           THEN Throws(ev, guild) /\ UNCHANGED <<store, user>>
           ELSE LET after == [guild EXCEPT !.roles = MapSet(@, d.role.id, role)]
                IN  /\ guilds' = MapSet(guilds, d.guild_id, after)
                    /\ UNCHANGED <<guildChannels, dmChannels, users, user>>
                    /\ Completes(ev, guild, <<Notification("guildRoleUpdate", <<after, role>>)>>)

GuildRoleDelete(d) ==
    /\ Connected
    /\ LET ev == Event("GUILD_ROLE_DELETE", d)
           guild == MapGet(guilds, d.guild_id)
       IN  IF guild = Absent
           THEN Throws(ev, guild) /\ UNCHANGED <<store, user>>
           ELSE LET role == MapGet(guild.roles, d.role_id)
                    after == [guild EXCEPT !.roles = MapDelete(@, d.role_id)]
                IN  /\ guilds' = MapSet(guilds, d.guild_id, after)
                    /\ UNCHANGED <<guildChannels, dmChannels, users, user>>
                    /\ Completes(ev, guild, <<Notification("guildRoleDelete", <<after, role>>)>>)

----------------------------------------------------------------------------
(* GUILD_BAN_ADD, GUILD_BAN_REMOVE, TYPING_START: the writers of users *)

GuildBanAdd(d) ==
    /\ Connected
    /\ LET banned == User(d.user)
       IN  /\ users' = MapSet(users, d.user.id, banned)
           /\ UNCHANGED <<guildChannels, dmChannels, guilds, user>>
           /\ Completes(Event("GUILD_BAN_ADD", d), MapGet(users, d.user.id),
                        <<Notification("guildBanAdd",
                                       <<[guildId |-> d.guild_id, user |-> banned]>>)>>)

GuildBanRemove(d) ==
    /\ Connected
    /\ LET unbanned == User(d.user)
       IN  /\ users' = MapSet(users, d.user.id, unbanned)
           /\ UNCHANGED <<guildChannels, dmChannels, guilds, user>>
           /\ Completes(Event("GUILD_BAN_REMOVE", d), MapGet(users, d.user.id),
                        <<Notification("guildBanRemove",
                                       <<[guildId |-> d.guild_id, user |-> unbanned]>>)>>)

\* without member data the user is read from the store and may be undefined
TypingStart(d) ==
    /\ Connected
    /\ LET typing == IF "member" \in DOMAIN d
                     THEN User(d.member.user)
                     ELSE MapGet(users, d.user_id)
       IN  /\ users' = IF "member" \in DOMAIN d
                       THEN MapSet(users, d.user_id, typing)
                       ELSE users
           /\ UNCHANGED <<guildChannels, dmChannels, guilds, user>>
           /\ Completes(Event("TYPING_START", d), MapGet(users, d.user_id),
                        <<Notification("typingStart",
                                       <<typing, d.channel_id, GuildIdOf(d)>>)>>)

----------------------------------------------------------------------------
(* The gateway's payloads.  Channel 1 is a text channel of guild 1 and      *)
(* channel 2 a DM channel; user 1 is the client's own user.  A payload      *)
(* about a guild channel carries guild_id, one about a DM channel does not. *)

ReadyPayloads == {[user |-> [id |-> 1], shard |-> <<0, 1>>]}

TextChannelPayload(id) == [id |-> id, type |-> 0, guild_id |-> 1, name |-> "general"]

DMChannelPayload(id) == [id |-> id, type |-> 1, name |-> "dm"]

ChannelPayloads == {TextChannelPayload(1), DMChannelPayload(2)}

InGuild(c) == c = 1

Scoped(c, d) == IF InGuild(c) THEN d @@ [guild_id |-> 1] ELSE d

MessagePayloads ==
    {Scoped(c, [id |-> m, channel_id |-> c, content |-> "hello"]) :
        c \in ChannelIds, m \in MessageIds}

Emojis == {[id |-> "E1", name |-> "blob"], [id |-> Null, name |-> "thumbsup"]}

ReactionPayloads ==
    {Scoped(c, [user_id |-> u, channel_id |-> c, message_id |-> m, emoji |-> e]) :
        u \in UserIds, c \in ChannelIds, m \in MessageIds, e \in Emojis}

ReactionRemoveAllPayloads ==
    {Scoped(c, [channel_id |-> c, message_id |-> m]) :
        c \in ChannelIds, m \in MessageIds}

ReactionRemoveEmojiPayloads ==
    {Scoped(c, [channel_id |-> c, message_id |-> m, emoji |-> e]) :
        c \in ChannelIds, m \in MessageIds, e \in Emojis}

----------------------------------------------------------------------------
(* Messages and reactions: the stream of one session carrying READY,        *)
(* CHANNEL_CREATE, MESSAGE_CREATE and the four reaction events.  Both       *)
(* channels may be cached; the stream carries the messages of one of them   *)
(* (either one), the other channel's cache staying empty.                   *)

OtherCachesEmpty(d) ==
    \A c \in (DOMAIN guildChannels \cup DOMAIN dmChannels) \ {d.channel_id} :
        /\ HasMessages(MapGet(guildChannels, c)) => guildChannels[c].messages = EmptyMap
        /\ HasMessages(MapGet(dmChannels, c)) => dmChannels[c].messages = EmptyMap

Next ==
    \/ \E d \in ReadyPayloads : Ready(d)
    \/ \E d \in ChannelPayloads : ChannelCreate(d)
    \/ \E d \in MessagePayloads : OtherCachesEmpty(d) /\ MessageCreate(d)
    \/ \E d \in ReactionPayloads : MessageReactionAdd(d)
    \/ \E d \in ReactionPayloads : MessageReactionRemove(d)
    \/ \E d \in ReactionRemoveAllPayloads : MessageReactionRemoveAll(d)
    \/ \E d \in ReactionRemoveEmojiPayloads : MessageReactionRemoveEmoji(d)

Spec == Init /\ [][Next]_vars

----------------------------------------------------------------------------
(* Guild members and emojis: the stream of one session carrying READY,      *)
(* GUILD_CREATE, the member events and GUILD_EMOJIS_UPDATE for guild 1.     *)

EmojiIds == {<<"A", "B", "C", "D", "E">>[i] : i \in 1..MaxEmojis}

GuildEmojiPayload(id) == [id |-> id, name |-> "emoji"]

UserPayload(u) == [id |-> u, username |-> "user"]

MemberPayload(u, nick) == [user |-> UserPayload(u), nick |-> nick, roles |-> {}]

GuildPayload(name) ==
    [id |-> 1, name |-> name, channels |-> {}, members |-> {}, roles |-> {},
     presences |-> {}, emojis |-> {}]

GuildCreatePayloads == {GuildPayload("guild")}

MemberAddPayloads == {MemberPayload(u, "nick") @@ [guild_id |-> 1] : u \in UserIds}

MemberUpdatePayloads ==
    {MemberPayload(u, nick) @@ [guild_id |-> 1] :
        u \in UserIds, nick \in {"nick", "renamed"}}

MembersChunkPayloads ==
    {[guild_id |-> 1, members |-> {MemberPayload(u, "nick") : u \in chunk}] :
        chunk \in SUBSET UserIds \ {{}}}

EmojisUpdatePayloads ==
    {[guild_id |-> 1, emojis |-> {GuildEmojiPayload(id) : id \in ids}] :
        ids \in SUBSET EmojiIds}

NextGuild ==
    \/ \E d \in ReadyPayloads : Ready(d)
    \/ \E d \in GuildCreatePayloads : GuildCreate(d)
    \/ \E d \in MemberAddPayloads : GuildMemberAdd(d)
    \/ \E d \in MemberUpdatePayloads : GuildMemberUpdate(d)
    \/ \E d \in MembersChunkPayloads : GuildMembersChunk(d)
    \/ \E d \in EmojisUpdatePayloads : GuildEmojisUpdate(d)

SpecGuild == Init /\ [][NextGuild]_vars

----------------------------------------------------------------------------
(* Events ahead of their container or of their entity: the stream of one    *)
(* session in which creates, updates and entity events for channel 1,       *)
(* channel 2 and guild 1 arrive in any order.  Channel 2 is cached only by  *)
(* a CHANNEL_UPDATE; the stream carries the messages of one channel.        *)

RenamedChannelPayloads ==
    {[TextChannelPayload(1) EXCEPT !.name = "renamed"],
     [DMChannelPayload(2) EXCEPT !.name = "renamed"]}

EditedMessagePayloads ==
    {Scoped(c, [id |-> m, channel_id |-> c, content |-> "edited"]) :
        c \in ChannelIds, m \in MessageIds}

DeletedMessagePayloads ==
    {Scoped(c, [id |-> m, channel_id |-> c]) : c \in ChannelIds, m \in MessageIds}

OwnReactionPayloads ==
    {Scoped(c, [user_id |-> 1, channel_id |-> c, message_id |-> m,
                emoji |-> [id |-> Null, name |-> "thumbsup"]]) :
        c \in ChannelIds, m \in MessageIds}

RoleCreatePayloads == {[guild_id |-> 1, role |-> [id |-> 1, name |-> "role"]]}

PresencePayloads == {[guild_id |-> 1, user |-> [id |-> 1], status |-> "online"]}

FirstChannelPayloads == {TextChannelPayload(1)}

\* the guild renamed: with every list of the snapshot, empty, or with the
\* role and emoji lists alone
RenamedGuildPayloads ==
    {GuildPayload("renamed"),
     [id |-> 1, name |-> "renamed", roles |-> {}, emojis |-> {}]}

FirstMemberPayloads == {MemberPayload(1, "nick") @@ [guild_id |-> 1]}

OneEmojiPayloads == {[guild_id |-> 1, emojis |-> {GuildEmojiPayload("A")}]}

NextDesync ==
    \/ \E d \in ReadyPayloads : Ready(d)
    \/ \E d \in FirstChannelPayloads : ChannelCreate(d)
    \/ \E d \in RenamedChannelPayloads : ChannelUpdate(d)
    \/ \E d \in GuildCreatePayloads : GuildCreate(d)
    \/ \E d \in RenamedGuildPayloads : GuildUpdate(d)
    \/ \E d \in MessagePayloads : OtherCachesEmpty(d) /\ MessageCreate(d)
    \/ \E d \in EditedMessagePayloads : OtherCachesEmpty(d) /\ MessageUpdate(d)
    \/ \E d \in DeletedMessagePayloads : MessageDelete(d)
    \/ \E d \in OwnReactionPayloads : MessageReactionAdd(d)
    \/ \E d \in FirstMemberPayloads : GuildMemberAdd(d)
    \/ \E d \in RoleCreatePayloads : GuildRoleCreate(d)
    \/ \E d \in PresencePayloads : PresenceUpdate(d)
    \/ \E d \in OneEmojiPayloads : GuildEmojisUpdate(d)

SpecDesync == Init /\ [][NextDesync]_vars

----------------------------------------------------------------------------
(* The life of guild 1: the stream of one session carrying READY, the       *)
(* guild's snapshot (GUILD_CREATE, declaring any of channel 1 and           *)
(* channel 3), GUILD_UPDATE, GUILD_DELETE, and the member, role and emoji   *)
(* events of the guild.                                                     *)

\* a channel of a snapshot carries no guild_id
SnapshotChannels ==
    {[id |-> 1, type |-> 0, name |-> "general"], [id |-> 3, type |-> 2, name |-> "voice"]}

SnapshotPayloads ==
    {[GuildPayload("guild") EXCEPT !.channels = channels] :
        channels \in SUBSET SnapshotChannels}

GuildDeletePayloads == {[id |-> 1, unavailable |-> TRUE]}

MemberRemovePayloads == {[guild_id |-> 1, user |-> UserPayload(u)] : u \in UserIds}

RoleIds == {1, 2}

RolePayloads ==
    {[guild_id |-> 1, role |-> [id |-> r, name |-> "role"]] : r \in RoleIds}

RoleUpdatePayloads ==
    {[guild_id |-> 1, role |-> [id |-> r, name |-> "renamed"]] : r \in RoleIds}

RoleDeletePayloads == {[guild_id |-> 1, role_id |-> r] : r \in RoleIds}

\* member 1 joins with role 1
JoinedMemberPayloads ==
    {[guild_id |-> 1, user |-> UserPayload(1), nick |-> "nick", roles |-> {1},
      joined_at |-> "2020-01-01"]}

\* updates of member 1 that name the nickname alone, or the nickname and the
\* role list
NickPayloads ==
    {[guild_id |-> 1, user |-> UserPayload(1), nick |-> nick] :
        nick \in {"nick", "renamed"}}
    \cup {[guild_id |-> 1, user |-> UserPayload(1), nick |-> "renamed", roles |-> roles] :
            roles \in {{1}, {1, 2}}}

NextLifecycle ==
    \/ \E d \in ReadyPayloads : Ready(d)
    \/ \E d \in SnapshotPayloads : GuildCreate(d)
    \/ \E d \in GuildDeletePayloads : GuildDelete(d)
    \/ \E d \in JoinedMemberPayloads : GuildMemberAdd(d)
    \/ \E d \in NickPayloads : GuildMemberUpdate(d)
    \/ \E d \in MemberRemovePayloads : GuildMemberRemove(d)
    \/ \E d \in RolePayloads : GuildRoleCreate(d)
    \/ \E d \in RoleUpdatePayloads : GuildRoleUpdate(d)
    \/ \E d \in RoleDeletePayloads : GuildRoleDelete(d)
    \/ \E d \in RenamedGuildPayloads : GuildUpdate(d)
    \/ \E d \in OneEmojiPayloads : GuildEmojisUpdate(d)

SpecLifecycle == Init /\ [][NextLifecycle]_vars

----------------------------------------------------------------------------
(* Deletes: the stream of one session in which channel 1 (text, guild 1)    *)
(* and channel 2 (DM) are created and deleted, messages 1 and 2 are created *)
(* and deleted in them, and guild 1, its member 1 and its role 1 are        *)
(* created and deleted; members and roles 1 and 2 are removed whether       *)
(* cached or not.                                                           *)

StoredMessageIds == {1, 2}

StoredMessagePayloads ==
    {Scoped(c, [id |-> m, channel_id |-> c, content |-> "hello"]) :
        c \in ChannelIds, m \in StoredMessageIds}

MessageDeletePayloads ==
    {Scoped(c, [id |-> m, channel_id |-> c]) : c \in ChannelIds, m \in StoredMessageIds}

\* e.data.ids names distinct messages, message 3 being one never cached
BulkDeletePayloads ==
    {Scoped(c, [channel_id |-> c, ids |-> ids]) :
        c \in ChannelIds, ids \in {<<1>>, <<2, 1>>, <<3>>, <<1, 2, 3>>}}

NextDelete ==
    \/ \E d \in ReadyPayloads : Ready(d)
    \/ \E d \in ChannelPayloads : ChannelCreate(d)
    \/ \E d \in ChannelPayloads : ChannelDelete(d)
    \/ \E d \in StoredMessagePayloads : OtherCachesEmpty(d) /\ MessageCreate(d)
    \/ \E d \in MessageDeletePayloads : MessageDelete(d)
    \/ \E d \in BulkDeletePayloads : MessageDeleteBulk(d)
    \/ \E d \in GuildCreatePayloads : GuildCreate(d)
    \/ \E d \in GuildDeletePayloads : GuildDelete(d)
    \/ \E d \in FirstMemberPayloads : GuildMemberAdd(d)
    \/ \E d \in MemberRemovePayloads : GuildMemberRemove(d)
    \/ \E d \in RoleCreatePayloads : GuildRoleCreate(d)
    \/ \E d \in RoleDeletePayloads : GuildRoleDelete(d)

SpecDelete == Init /\ [][NextDelete]_vars

----------------------------------------------------------------------------
(* Channel kinds: the stream of one session in which channels 1 and 2 are   *)
(* created and deleted as any of the seven kinds.                           *)

ChannelTypes == 0..6

KindPayloads ==
    {(IF t \in {1, 3} THEN <<>> ELSE [guild_id |-> 1])
        @@ [id |-> c, type |-> t, name |-> "channel"] :
        c \in ChannelIds, t \in ChannelTypes}

NextKinds ==
    \/ \E d \in ReadyPayloads : Ready(d)
    \/ \E d \in KindPayloads : ChannelCreate(d)
    \/ \E d \in KindPayloads : ChannelDelete(d)

SpecKinds == Init /\ [][NextKinds]_vars

----------------------------------------------------------------------------
(* The user store: the stream of one session carrying READY, bans and       *)
(* unbans of users 1 and 2 in guild 1, TYPING_START with member data (in    *)
(* channel 1 of guild 1) and without (in the DM channel 2), each user under *)
(* either of two usernames, and the create, delete and member events of     *)
(* guild 1.                                                                 *)

Usernames == {"user", "renamed"}

BanPayloads ==
    {[guild_id |-> 1, user |-> [id |-> u, username |-> n]] : u \in UserIds, n \in Usernames}

TypingPayloads ==
    {[channel_id |-> 1, guild_id |-> 1, user_id |-> u,
      member |-> [user |-> [id |-> u, username |-> n], nick |-> "nick", roles |-> {}]] :
        u \in UserIds, n \in Usernames}
    \cup {[channel_id |-> 2, user_id |-> u] : u \in UserIds}

NextUsers ==
    \/ \E d \in ReadyPayloads : Ready(d)
    \/ \E d \in BanPayloads : GuildBanAdd(d)
    \/ \E d \in BanPayloads : GuildBanRemove(d)
    \/ \E d \in TypingPayloads : TypingStart(d)
    \/ \E d \in GuildCreatePayloads : GuildCreate(d)
    \/ \E d \in GuildDeletePayloads : GuildDelete(d)
    \/ \E d \in FirstMemberPayloads : GuildMemberAdd(d)
    \/ \E d \in MemberRemovePayloads : GuildMemberRemove(d)

SpecUsers == Init /\ [][NextUsers]_vars

----------------------------------------------------------------------------
(* The request/response transport: RestClient.request (rest/RestClient.ts)  *)
(* and Client.connect.  A JSON text is modelled as [json |-> document]:     *)
(* JSON.stringify wraps the document, res.json() unwraps it.  Headers is a  *)
(* function from header names to values.                                    *)

Stringify(data) == [json |-> data]

ParseJSON(body) == body.json

\* rest/Error.ts
DiscordJSONError(status, json) ==
    [error |-> "DiscordJSONError", status |-> status, code |-> json.code,
     message |-> json.message]

HTTPError(status, message) == [error |-> "HTTPError", status |-> status, message |-> message]

\* the headers and the body request builds from this.token and data
RequestHeaders(token, data) ==
    LET agent == "User-Agent" :> "DiscordBot (https://github.com/DenordTS/denord, 0.0.1)"
        authorized == IF token # ""
                      THEN MapSet(agent, "Authorization", <<"Bot ", token>>)
                      ELSE agent
    IN  IF data # Absent /\ "file" \notin DOMAIN data
        THEN MapSet(authorized, "Content-Type", "application/json")
        ELSE authorized

RequestBody(data) ==
    IF data = Absent THEN Absent
    ELSE IF "file" \in DOMAIN data
         THEN [form |-> [file |-> data.file,
                         payload_json |-> [k \in DOMAIN data \ {"file"} |-> data[k]]]]
         ELSE Stringify(data)

OutcomeAlwaysParsed(status, body) == [returned |-> ParseJSON(body)]

\* switch (res.status)
Outcome(status, body) ==
    CASE status \in {200, 201} -> [returned |-> ParseJSON(body)]
      [] status = 204 -> [returned |-> Absent]
      [] status \in {400, 404} -> [raised |-> DiscordJSONError(status, ParseJSON(body))]
      [] status = 401 -> [raised |-> HTTPError(status, "You supplied an invalid token")]
      [] status = 403 -> [raised |-> HTTPError(status, "You don't have permission to do this")]
      [] status = 429 -> [raised |-> HTTPError(status, "You are getting rate-limited")]
      [] status = 502 -> [raised |-> HTTPError(status, "Gateway unavailable. Wait and retry")]
      [] status \in {500, 503, 504, 507, 508} ->
            [raised |-> HTTPError(status, "Discord internal error")]
      [] OTHER -> [raised |-> HTTPError(status, "Unexpected response")]

\* a RestClient method calls request, which runs up to "await fetch(...)"
Request(call) ==
    /\ rest.phase # "fetching"
    /\ rest' = [rest EXCEPT
                   !.phase = "fetching",
                   !.request = [endpoint |-> call.endpoint, method |-> call.method,
                                headers |-> RequestHeaders(rest.token, call.data),
                                body |-> RequestBody(call.data)],
                   !.fetches = 1,
                   !.response = Absent,
                   !.outcome = Absent]
    /\ UNCHANGED <<store, user, lastEvent, before, emitted, threw, recorder, gateway>>

RespondOrRetry(status, body) ==
    /\ rest.phase = "fetching"
    /\ rest' = IF status = 429 /\ rest.fetches = 1
               THEN [rest EXCEPT !.fetches = 2]
               ELSE [rest EXCEPT !.phase = "settled",
                                 !.response = [status |-> status, body |-> body],
                                 !.outcome = Outcome(status, body)]
    /\ UNCHANGED <<store, user, lastEvent, before, emitted, threw, recorder, gateway>>

\* fetch resolves and request runs from the switch to its return or throw
Respond(status, body) ==
    /\ rest.phase = "fetching"
    /\ rest' = [rest EXCEPT !.phase = "settled",
                            !.response = [status |-> status, body |-> body],
                            !.outcome = Outcome(status, body)]
    /\ UNCHANGED <<store, user, lastEvent, before, emitted, threw, recorder, gateway>>

\* fetch rejects (no response): the rejection leaves request as it is
FetchRejects ==
    /\ rest.phase = "fetching"
    /\ rest' = [rest EXCEPT !.phase = "settled",
                            !.outcome = [raised |-> [error |-> "TypeError"]]]
    /\ UNCHANGED <<store, user, lastEvent, before, emitted, threw, recorder, gateway>>

\* Client.connect up to "await this.gateway.connect(token)"
Connect(token) ==
    /\ rest.connect = "idle"
    /\ rest' = [rest EXCEPT !.token = token, !.connect = "pending"]
    /\ UNCHANGED <<store, user, lastEvent, before, emitted, threw, recorder, gateway>>

\* gateway.connect resolves: this.emit("ready", undefined)
ConnectResolves ==
    /\ rest.connect = "pending"
    /\ rest' = [rest EXCEPT !.connect = "ready"]
    /\ lastEvent' = Event("connect", Absent)
    /\ before' = Absent
    /\ emitted' = <<Notification("ready", <<Absent>>)>>
    /\ threw' = FALSE
    /\ UNCHANGED <<store, user, recorder, gateway>>

Tokens == {"token"}

\* getChannel, modifyChannel, deleteChannel, createMessage with a file
RestCalls ==
    {[endpoint |-> "channels/1", method |-> "GET", data |-> Absent],
     [endpoint |-> "channels/1", method |-> "PATCH", data |-> [name |-> "renamed"]],
     [endpoint |-> "channels/1", method |-> "DELETE", data |-> Absent],
     [endpoint |-> "channels/1/messages", method |-> "POST",
      data |-> [file |-> "f.png", content |-> "hello"]]}

\* the statuses the switch names and four it does not
Statuses ==
    {200, 201, 204, 400, 401, 403, 404, 429, 500, 502, 503, 504, 507, 508}
        \cup {202, 304, 405, 501}

ResponseBodies ==
    {Stringify([code |-> 10003, message |-> "Unknown Channel"]),
     Stringify([code |-> 50035, message |-> "Invalid Form Body"])}

NextRest ==
    \/ \E token \in Tokens : Connect(token)
    \/ ConnectResolves
    \/ \E call \in RestCalls : Request(call)
    \/ \E status \in Statuses, body \in ResponseBodies : Respond(status, body)
    \/ FetchRejects

SpecRest == Init /\ [][NextRest]_vars

----------------------------------------------------------------------------
(* The Sessions of the Shard Manager (gateway/ShardManager.ts): the         *)
(* per-shard connection state machine                                       *)
(*   Disconnected -> Connecting -> Identifying -> Connected(sequence)       *)
(*                -> Resuming -> Backoff(n) -> Disconnected                 *)
(* and the identify gate the Sessions share.                                *)

\* a fresh Identifying cycle: the session id and the sequence are forgotten
Identifying(session) ==
    [session EXCEPT !.state = "Identifying", !.sessionId = Absent, !.sequence = 0,
                    !.attempts = 0, !.identify = "none", !.resume = Absent]

\* the connection is lost or considered dead: resume with the last known
\* session id and sequence
Resuming(session) ==
    [session EXCEPT !.state = "Resuming",
                    !.resume = [session_id |-> session.sessionId,
                                seq |-> session.sequence]]

Backoff(session) ==
    [session EXCEPT !.state = "Backoff",
                    !.backoff = IF @ < MaxBackoff THEN @ + 1 ELSE MaxBackoff,
                    !.resume = Absent]

ResumeFailedRetries(session) ==
    Backoff([session EXCEPT !.attempts = IF @ < ResumeBudget THEN @ + 1 ELSE @])

\* a resume attempt failed: past the budget the Session identifies anew
ResumeFailed(session) ==
    IF session.attempts + 1 >= ResumeBudget
    THEN Identifying(session)
    ELSE Backoff([session EXCEPT !.attempts = @ + 1])

GateAlwaysOpen(gate) == TRUE

\* only one identify may be sent per window across the whole manager
IdentifyAllowed(gate) == gate = "open"

SessionSteps ==
    {"open", "hello", "connectFails", "backoffElapses", "identify", "ready",
     "dispatch", "sustained", "heartbeatTick", "heartbeatAck", "connectionLoss",
     "resumeAccepted", "resumeRejected", "resumeFails"}

\* the session ids the server issues
SessionIds == {"a", "b"}

\* the Session after the step, or Absent where the step cannot be taken
Transition(session, step, id) ==
    LET in(state) == session.state = state
    IN  CASE step = "open" /\ in("Disconnected") ->
                [session EXCEPT !.state = "Connecting"]
          [] step = "hello" /\ in("Connecting") ->
                IF session.sessionId # Absent
                THEN Resuming([session EXCEPT !.acked = TRUE])
                ELSE Identifying([session EXCEPT !.acked = TRUE])
          [] step = "connectFails" /\ in("Connecting") -> Backoff(session)
          [] step = "backoffElapses" /\ in("Backoff") ->
                [session EXCEPT !.state = "Disconnected"]
          [] step = "identify" /\ in("Identifying") /\ session.identify = "none" ->
                [session EXCEPT !.identify = "thisWindow"]
          [] step = "ready" /\ in("Identifying") /\ session.identify # "none" ->
                [session EXCEPT !.state = "Connected", !.sessionId = [id |-> id],
                                !.sequence = 0, !.acked = TRUE, !.identify = "none"]
          [] step = "dispatch" /\ in("Connected") /\ session.sequence < MaxSequence ->
                [session EXCEPT !.sequence = @ + 1]
          [] step = "sustained" /\ in("Connected") /\ session.backoff > 0 ->
                [session EXCEPT !.backoff = 0]
          [] step = "heartbeatTick" /\ in("Connected") ->
                IF session.acked
                THEN [session EXCEPT !.acked = FALSE]
                ELSE Resuming(session)
          [] step = "heartbeatAck" /\ in("Connected") /\ ~session.acked ->
                [session EXCEPT !.acked = TRUE]
          [] step = "connectionLoss" /\ in("Connected") -> Resuming(session)
          [] step = "resumeAccepted" /\ in("Resuming") ->
                [session EXCEPT !.state = "Connected", !.attempts = 0,
                                !.acked = TRUE, !.resume = Absent]
          [] step = "resumeRejected" /\ in("Resuming") -> Identifying(session)
          [] step = "resumeFails" /\ in("Resuming") -> ResumeFailed(session)
          [] OTHER -> Absent

SessionStep(s, step, id) ==
    LET after == Transition(gateway.sessions[s], step, id)
    IN  /\ after # Absent
        /\ step = "identify" => IdentifyAllowed(gateway.gate)
        /\ gateway' = [gateway EXCEPT
                          !.sessions[s] = [after EXCEPT !.last = step],
                          !.gate = IF step = "identify" THEN "closed" ELSE @]
        /\ UNCHANGED <<store, user, lastEvent, before, emitted, threw, recorder, rest>>

\* the rolling window of the identify gate elapses
WindowElapses ==
    /\ gateway.gate = "closed"
    /\ gateway' = [sessions |->
                      [s \in Shards |->
                          [gateway.sessions[s] EXCEPT
                              !.identify = IF @ = "thisWindow" THEN "earlierWindow" ELSE @]],
                   gate |-> "open"]
    /\ UNCHANGED <<store, user, lastEvent, before, emitted, threw, recorder, rest>>

NextSessions ==
    \/ \E s \in Shards, step \in SessionSteps, id \in SessionIds : SessionStep(s, step, id)
    \/ WindowElapses

SpecSessions == Init /\ [][NextSessions]_vars

----------------------------------------------------------------------------
(* Record and replay: the stream of one session (READY, channels 1 and 2,   *)
(* a message in each, the client's own reaction, guild 1 created and        *)
(* deleted) is applied live while it is recorded, and the recording is then *)
(* replayed into a fresh store.  In the second stream the live run is       *)
(* interrupted at any point by RECONNECT and RESUMED, and the recording,    *)
(* which holds neither, is the uninterrupted sequence.                      *)

Stored == <<guildChannels, dmChannels, guilds, users, user>>

InitRecording == Fresh /\ recorder = Recording

\* a new Client is constructed and fed the recorded sequence
StartReplay ==
    /\ recorder.phase = "live"
    /\ recorder.log # <<>>
    /\ recorder' = [recorder EXCEPT !.phase = "replay", !.live = Stored]
    /\ guildChannels' = EmptyMap
    /\ dmChannels' = EmptyMap
    /\ guilds' = EmptyMap
    /\ users' = EmptyMap
    /\ user' = Absent
    /\ lastEvent' = NoEvent
    /\ before' = Absent
    /\ emitted' = <<>>
    /\ threw' = FALSE
    /\ rest' = NewRestClient
    /\ UNCHANGED gateway

\* e.data of RESUMED and of RECONNECT is not read
ConnectionPayloads == {Absent}

NextReplay ==
    \/ \E d \in ReadyPayloads : Ready(d)
    \/ \E d \in ChannelPayloads : ChannelCreate(d)
    \/ \E d \in MessagePayloads : MessageCreate(d)
    \/ \E d \in OwnReactionPayloads : MessageReactionAdd(d)
    \/ \E d \in GuildCreatePayloads : GuildCreate(d)
    \/ \E d \in GuildDeletePayloads : GuildDelete(d)
    \/ StartReplay

SpecReplay == InitRecording /\ [][NextReplay]_vars

NextResume ==
    \/ NextReplay
    \/ \E d \in ConnectionPayloads : Resumed(d)
    \/ \E d \in ConnectionPayloads : Reconnect(d)

SpecResume == InitRecording /\ [][NextResume]_vars

----------------------------------------------------------------------------
(* Properties of the reaction handlers (checked under Spec)                 *)

\* the message a reaction payload refers to, in the given channel stores
ChannelIn(gc, dc, d) == MapGet(IF HasGuildId(d) THEN gc ELSE dc, d.channel_id)

MessageIn(gc, dc, d) ==
    IF HasMessages(ChannelIn(gc, dc, d))
    THEN MapGet(ChannelIn(gc, dc, d).messages, d.message_id)
    ELSE Absent

AllChannels(gc, dc) == {gc[c] : c \in DOMAIN gc} \cup {dc[c] : c \in DOMAIN dc}

CachedMessages(gc, dc) ==
    UNION {{ch.messages[m] : m \in DOMAIN ch.messages} :
              ch \in {x \in AllChannels(gc, dc) : HasMessages(x)}}

AdjustsReaction(ev) ==
    ev.name \in {"MESSAGE_REACTION_ADD", "MESSAGE_REACTION_REMOVE"}

ReactionEvent(ev) ==
    ev.name \in {"MESSAGE_REACTION_ADD", "MESSAGE_REACTION_REMOVE",
                 "MESSAGE_REACTION_REMOVE_ALL", "MESSAGE_REACTION_REMOVE_EMOJI"}

\* C4: in every reachable store state every reaction aggregate of every
\* cached message, in guild channels and in DM channels, has count >= 0.
C4_CountNeverNegative ==
    \A message \in CachedMessages(guildChannels, dmChannels) :
        \A key \in DOMAIN message.reactions : message.reactions[key].count >= 0

\* C5: when the message is cached and has an aggregate for the reaction key,
\* MESSAGE_REACTION_ADD leaves the aggregate in the map with its count
\* increased by exactly 1, MESSAGE_REACTION_REMOVE leaves it in the map with
\* its count decreased by exactly 1, and no other key of the message changes.
C5_AdjustsExistingByOne ==
    [][LET ev == lastEvent'
           old == MessageIn(guildChannels, dmChannels, ev.data)
           after == MessageIn(guildChannels', dmChannels', ev.data)
           key == ReactionKey(ev.data.emoji)
       IN  (/\ AdjustsReaction(ev)
            /\ old # Absent
            /\ MapHas(old.reactions, key))
           => /\ after # Absent
              /\ MapHas(after.reactions, key)
              /\ after.reactions[key].count = old.reactions[key].count
                    + (IF ev.name = "MESSAGE_REACTION_ADD" THEN 1 ELSE 0 - 1)
              /\ \A k \in (DOMAIN old.reactions \cup DOMAIN after.reactions) \ {key} :
                    MapGet(after.reactions, k) = MapGet(old.reactions, k)]_vars

\* C6: a reaction event (add, remove, remove-all, remove-emoji) on a cached
\* channel whose message cache lacks the referenced message id leaves the whole
\* entity store unchanged, and its one notification carries the bare message
\* id in the place of the message.
C6_UncachedMessageNoMutation ==
    [][LET ev == lastEvent'
           channel == ChannelIn(guildChannels, dmChannels, ev.data)
       IN  (/\ ReactionEvent(ev)
            /\ HasMessages(channel)
            /\ ~MapHas(channel.messages, ev.data.message_id))
           => /\ UNCHANGED store
              /\ ~threw'
              /\ Len(emitted') = 1
              /\ emitted'[1].args[1] = channel
              /\ emitted'[1].args[2] = Snowflake(ev.data.message_id)]_vars

C6_Witness ==
    /\ lastEvent.name = "MESSAGE_REACTION_REMOVE_EMOJI"
    /\ HasMessages(before)
    /\ ~MapHas(before.messages, lastEvent.data.message_id)
    /\ ChannelIn(guildChannels, dmChannels, lastEvent.data) = before
    /\ MapHas(guildChannels, 1)
    /\ MapHas(dmChannels, 2)
    /\ ~threw
    /\ Len(emitted) = 1
    /\ emitted[1].args[2] = Snowflake(lastEvent.data.message_id)

C30_FirstAddCountsOne ==
    [][LET ev == lastEvent'
           old == MessageIn(guildChannels, dmChannels, ev.data)
           after == MessageIn(guildChannels', dmChannels', ev.data)
           key == ReactionKey(ev.data.emoji)
       IN  (ev.name = "MESSAGE_REACTION_ADD" /\ old # Absent)
           => /\ after # Absent
              /\ MapHas(after.reactions, key)
              /\ after.reactions[key].count =
                    IF MapHas(old.reactions, key)
                    THEN old.reactions[key].count + 1
                    ELSE 1]_vars

\* C32: a MESSAGE_REACTION_REMOVE for a cached message that has no aggregate
\* for the reaction key does not make the handler fail, leaves the message's
\* reaction map as it was, and emits the messageReactionRemove notification.
C32_RemoveWithoutAggregateIsHarmless ==
    [][LET ev == lastEvent'
           old == MessageIn(guildChannels, dmChannels, ev.data)
           after == MessageIn(guildChannels', dmChannels', ev.data)
       IN  (/\ ev.name = "MESSAGE_REACTION_REMOVE"
            /\ old # Absent
            /\ ~MapHas(old.reactions, ReactionKey(ev.data.emoji)))
           => /\ ~threw'
              /\ after # Absent
              /\ after.reactions = old.reactions
              /\ Len(emitted') = 1
              /\ emitted'[1].name = "messageReactionRemove"]_vars

----------------------------------------------------------------------------
(* Properties of events ahead of their container or entity                  *)
(* (checked under SpecDesync)                                               *)

ChannelScoped(ev) ==
    ev.name \in {"MESSAGE_CREATE", "MESSAGE_UPDATE", "MESSAGE_DELETE",
                 "MESSAGE_REACTION_ADD", "MESSAGE_REACTION_REMOVE",
                 "MESSAGE_REACTION_REMOVE_ALL", "MESSAGE_REACTION_REMOVE_EMOJI"}

GuildScoped(ev) ==
    ev.name \in {"GUILD_MEMBER_ADD", "GUILD_ROLE_CREATE", "PRESENCE_UPDATE",
                 "GUILD_EMOJIS_UPDATE"}

\* C1: an event that references a container absent from the store (a message
\* or reaction event for a channel id in neither channel store; a member-add,
\* role-create, presence or emoji event for a guild id not in the guild store)
\* never makes the handler fail.
C1_AbsentContainerNeverFails ==
    [][LET ev == lastEvent'
       IN  (\/ /\ ChannelScoped(ev)
               /\ ~MapHas(guildChannels, ev.data.channel_id)
               /\ ~MapHas(dmChannels, ev.data.channel_id)
            \/ /\ GuildScoped(ev)
               /\ ~MapHas(guilds, ev.data.guild_id))
           => ~threw']_vars

\* C2: a CHANNEL_UPDATE or GUILD_UPDATE whose entity id is not in the store,
\* and a MESSAGE_UPDATE on a cached channel whose message id is not in the
\* channel's cache, does not fail: the new value is stored under that id and
\* the one update notification carries old = absent and new = the value built
\* from the payload.
C2_UpdateWithoutPriorValue ==
    [][LET ev == lastEvent'
           d == ev.data
       IN  /\ (/\ ev.name = "CHANNEL_UPDATE"
               /\ ~MapHas(IF IsDMType(newChannelSwitch(d)) THEN dmChannels
                          ELSE guildChannels, d.id))
              => /\ ~threw'
                 /\ MapGet(IF IsDMType(newChannelSwitch(d)) THEN dmChannels'
                           ELSE guildChannels', d.id) = newChannelSwitch(d)
                 /\ emitted' = <<Notification("channelUpdate",
                                              <<Absent, newChannelSwitch(d)>>)>>
           /\ (ev.name = "GUILD_UPDATE" /\ ~MapHas(guilds, d.id))
              => /\ ~threw'
                 /\ MapGet(guilds', d.id) = GatewayGuild(d)
                 /\ emitted' = <<Notification("guildUpdate", <<Absent, GatewayGuild(d)>>)>>
           /\ (/\ ev.name = "MESSAGE_UPDATE"
               /\ HasMessages(MapGet(ChannelsFor(d), d.channel_id))
               /\ ~MapHas(MapGet(ChannelsFor(d), d.channel_id).messages, d.id))
              => /\ ~threw'
                 /\ MessageIn(guildChannels', dmChannels',
                              [channel_id |-> d.channel_id, message_id |-> d.id]
                              @@ (IF HasGuildId(d) THEN [guild_id |-> d.guild_id]
                                  ELSE <<>>))
                      = Message(d)
                 /\ Len(emitted') = 1
                 /\ emitted'[1].name = "messageUpdate"
                 /\ emitted'[1].args[2] = Absent
                 /\ emitted'[1].args[3] = Message(d)]_vars

C2_Witness ==
    /\ lastEvent.name = "MESSAGE_UPDATE"
    /\ HasMessages(before)
    /\ ~MapHas(before.messages, lastEvent.data.id)
    /\ ~threw
    /\ emitted[1].args[2] = Absent
    /\ MapHas(guildChannels, 1)
    /\ guildChannels[1].name = "renamed"
    /\ MapHas(guilds, 1)
    /\ guilds[1].name = "renamed"
    /\ guilds[1].members = EmptyMap

----------------------------------------------------------------------------
(* Properties of the guild handlers (checked under SpecGuild)               *)

\* C3: a GUILD_MEMBER_UPDATE for a cached guild whose member map has no entry
\* for the payload's user id does not fail: the new member is inserted under
\* that user id and guildMemberUpdate is emitted with old = absent.
C3_MemberUpdateWithoutPriorValue ==
    [][LET ev == lastEvent'
           d == ev.data
       IN  (/\ ev.name = "GUILD_MEMBER_UPDATE"
            /\ MapHas(guilds, d.guild_id)
            /\ ~MapHas(guilds[d.guild_id].members, d.user.id))
           => /\ ~threw'
              /\ MapHas(guilds'[d.guild_id].members, d.user.id)
              /\ Len(emitted') = 1
              /\ emitted'[1].name = "guildMemberUpdate"
              /\ emitted'[1].args[2] = Absent]_vars

\* C8: after a GUILD_MEMBERS_CHUNK for a cached guild the guild's member map
\* is the additive merge of the previous map and the chunk: every previous key
\* is still a key, every user id of the chunk is a key mapped to the chunk's
\* member, and no key is removed.
C8_ChunkMergesAdditively ==
    [][LET ev == lastEvent'
           d == ev.data
           chunk == MemberMap(d.members, d.guild_id)
       IN  (ev.name = "GUILD_MEMBERS_CHUNK" /\ MapHas(guilds, d.guild_id))
           => /\ DOMAIN guilds'[d.guild_id].members
                    = DOMAIN guilds[d.guild_id].members \cup DOMAIN chunk
              /\ \A u \in DOMAIN chunk : guilds'[d.guild_id].members[u] = chunk[u]
              /\ \A u \in DOMAIN guilds[d.guild_id].members \ DOMAIN chunk :
                    guilds'[d.guild_id].members[u] = guilds[d.guild_id].members[u]]_vars

\* C9: a GUILD_EMOJIS_UPDATE is classified by the size of the new emoji set
\* against the size of the guild's emoji set before the event: larger emits
\* exactly one guildEmojiCreate carrying an emoji not in the previous set,
\* equal emits exactly one guildEmojiUpdate, smaller emits exactly one
\* guildEmojiDelete carrying an emoji of the previous set missing in the new
\* one; in all cases the guild's emoji map afterwards equals the new set.
C9_EmojisClassifiedBySize ==
    [][LET ev == lastEvent'
           d == ev.data
           previous == guilds[d.guild_id].emojis
           newEmojis == EmojiMap(d.emojis)
       IN  (ev.name = "GUILD_EMOJIS_UPDATE" /\ MapHas(guilds, d.guild_id))
           => /\ Len(emitted') = 1
              /\ guilds'[d.guild_id].emojis = newEmojis
              /\ IF Size(newEmojis) > Size(previous)
                 THEN /\ emitted'[1].name = "guildEmojiCreate"
                      /\ \E id \in DOMAIN newEmojis \ DOMAIN previous :
                            emitted'[1].args[2] = newEmojis[id]
                 ELSE IF Size(newEmojis) = Size(previous)
                      THEN emitted'[1].name = "guildEmojiUpdate"
                      ELSE /\ emitted'[1].name = "guildEmojiDelete"
                           /\ \E id \in DOMAIN previous \ DOMAIN newEmojis :
                                 emitted'[1].args[2] = previous[id]]_vars

ReplacesABbyAC(ev) ==
    /\ ev.name = "GUILD_EMOJIS_UPDATE"
    /\ MapHas(guilds, ev.data.guild_id)
    /\ DOMAIN guilds[ev.data.guild_id].emojis = {"A", "B"}
    /\ {e.id : e \in ev.data.emojis} = {"A", "C"}

NotificationsNamed(notifications, name) ==
    {i \in 1..Len(notifications) : notifications[i].name = name}

\* C10 as stated: a GUILD_EMOJIS_UPDATE that replaces the cached emoji set
\* {A,B} by {A,C} produces exactly one removal notification, for B, and exactly
\* one addition notification, for C.
C10_OneRemovalAndOneAddition ==
    [][ReplacesABbyAC(lastEvent')
       => /\ \E i \in 1..Len(emitted') :
                /\ NotificationsNamed(emitted', "guildEmojiDelete") = {i}
                /\ emitted'[i].args[2].id = "B"
          /\ \E i \in 1..Len(emitted') :
                /\ NotificationsNamed(emitted', "guildEmojiCreate") = {i}
                /\ emitted'[i].args[2].id = "C"]_vars

\* C10 as amended: a GUILD_EMOJIS_UPDATE that replaces the cached emoji set
\* {A,B} by {A,C} produces exactly one notification, a guildEmojiUpdate for the
\* guild, and neither a removal nor an addition notification; the guild's
\* emoji map afterwards is {A,C}.
C10_EqualSizeReplaceIsOneUpdate ==
    [][ReplacesABbyAC(lastEvent')
       => /\ ~threw'
          /\ DOMAIN guilds'[lastEvent'.data.guild_id].emojis = {"A", "C"}
          /\ emitted' = <<Notification("guildEmojiUpdate",
                                       <<guilds'[lastEvent'.data.guild_id]>>)>>]_vars

C10_Witness ==
    /\ lastEvent.name = "GUILD_EMOJIS_UPDATE"
    /\ before # Absent
    /\ DOMAIN before.emojis = {"A", "B"}
    /\ DOMAIN guilds[lastEvent.data.guild_id].emojis = {"A", "C"}
    /\ Len(emitted) = 1
    /\ emitted[1].name = "guildEmojiUpdate"

\* the user ids of the members of the cached guilds
MemberUserIds(g) ==
    UNION {{g[gid].members[m].user.id : m \in DOMAIN g[gid].members} : gid \in DOMAIN g}

\* C21: in every reachable store state the user id of every member of every
\* cached guild is a key of the user store.
C21_MemberUserResolves == \A u \in MemberUserIds(guilds) : MapHas(users, u)

----------------------------------------------------------------------------
(* Properties of the guild's life (checked under SpecLifecycle)             *)

\* the orders in which an array can hold the elements of a set
ArrayOrders(set) ==
    {array \in [1..Cardinality(set) -> set] : {array[i] : i \in DOMAIN array} = set}

DeclaredChannelsCached(gc, d) == \A channel \in d.channels : MapHas(gc, channel.id)

\* C11: on GUILD_CREATE every channel the snapshot declares is inserted into
\* the channel store before the guild is inserted into the guild store, and
\* guildCreate is emitted only after both: after no statement of the handler
\* (and not when the notification is emitted) does the guild store hold the
\* guild while a declared channel is missing from the channel store.
C11_ChannelsBeforeGuildBeforeNotification ==
    [][LET ev == lastEvent'
           d == ev.data
       IN  ev.name = "GUILD_CREATE"
           => \A channels \in ArrayOrders(d.channels) :
                 LET run == GuildCreateStatements(d, channels)
                     last == run[Len(run)]
                 IN  /\ last.guildChannels = guildChannels'
                     /\ last.guilds = guilds'
                     /\ last.emitted = emitted'
                     /\ \A i \in DOMAIN run :
                           /\ run[i].statement \in {"guilds.set", "emit"}
                              => DeclaredChannelsCached(run[i].guildChannels, d)
                           /\ run[i].emitted # <<>>
                              => MapHas(run[i].guilds, d.id)
                           /\ (~MapHas(guilds, d.id) /\ MapHas(run[i].guilds, d.id))
                              => DeclaredChannelsCached(run[i].guildChannels, d)]_vars

C11_Witness ==
    /\ lastEvent.name = "GUILD_CREATE"
    /\ before = Absent
    /\ Cardinality(lastEvent.data.channels) = 2
    /\ DeclaredChannelsCached(guildChannels, lastEvent.data)
    /\ MapHas(guilds, lastEvent.data.id)
    /\ emitted = <<Notification("guildCreate", <<guilds[lastEvent.data.id]>>)>>

\* what a lookup by the id an update event names finds in the given stores
LookupUpdated(gc, dc, g, ev) ==
    LET d == ev.data
    IN  CASE ev.name = "CHANNEL_UPDATE" ->
                MapGet(IF IsDMType(newChannelSwitch(d)) THEN dc ELSE gc, d.id)
          [] ev.name = "GUILD_UPDATE" -> MapGet(g, d.id)
          [] ev.name = "GUILD_MEMBER_UPDATE" ->
                IF MapHas(g, d.guild_id)
                THEN MapGet(g[d.guild_id].members, d.user.id)
                ELSE Absent
          [] ev.name = "GUILD_ROLE_UPDATE" ->
                IF MapHas(g, d.guild_id)
                THEN MapGet(g[d.guild_id].roles, d.role.id)
                ELSE Absent
          [] ev.name = "MESSAGE_UPDATE" ->
                IF HasMessages(ChannelIn(gc, dc, d))
                THEN MapGet(ChannelIn(gc, dc, d).messages, d.id)
                ELSE Absent

Values(map) == {map[k] : k \in DOMAIN map}

\* the arguments hold a value of olds and, after it, a value of news
CarriesOldAndNew(args, olds, news) ==
    \E i, j \in 1..Len(args) : i < j /\ args[i] \in olds /\ args[j] \in news

\* C16: every update event whose prior value is cached emits one notification
\* that carries the prior value, as it was in the store immediately before
\* the event, and the new value: CHANNEL_UPDATE, GUILD_UPDATE,
\* GUILD_MEMBER_UPDATE, MESSAGE_UPDATE, GUILD_ROLE_UPDATE, and
\* GUILD_EMOJIS_UPDATE when the emoji set keeps its size.
C16_UpdatesCarryOldAndNew ==
    [][LET ev == lastEvent'
           d == ev.data
       IN  /\ (/\ ev.name \in {"CHANNEL_UPDATE", "GUILD_UPDATE", "GUILD_MEMBER_UPDATE",
                                "MESSAGE_UPDATE", "GUILD_ROLE_UPDATE"}
               /\ LookupUpdated(guildChannels, dmChannels, guilds, ev) # Absent)
              => /\ ~threw'
                 /\ Len(emitted') = 1
                 /\ CarriesOldAndNew(emitted'[1].args,
                       {LookupUpdated(guildChannels, dmChannels, guilds, ev)},
                       {LookupUpdated(guildChannels', dmChannels', guilds', ev)})
           /\ (/\ ev.name = "GUILD_EMOJIS_UPDATE"
               /\ MapHas(guilds, d.guild_id)
               /\ guilds[d.guild_id].emojis # EmptyMap
               /\ Size(guilds[d.guild_id].emojis) = Cardinality(d.emojis))
              => /\ ~threw'
                 /\ Len(emitted') = 1
                 /\ CarriesOldAndNew(emitted'[1].args,
                       Values(guilds[d.guild_id].emojis),
                       Values(guilds'[d.guild_id].emojis))]_vars

\* C18: a GUILD_MEMBER_UPDATE whose payload changes only the nickname of a
\* cached member leaves the stored member's role list, and every other
\* attribute the payload does not name, equal to the prior value, while the
\* nickname differs between the old and the new value of the one
\* guildMemberUpdate notification.
C18_NicknameOnlyUpdateKeepsRoles ==
    [][LET ev == lastEvent'
           d == ev.data
           old == LookupUpdated(guildChannels, dmChannels, guilds, ev)
           new == LookupUpdated(guildChannels', dmChannels', guilds', ev)
       IN  (/\ ev.name = "GUILD_MEMBER_UPDATE"
            /\ old # Absent
            /\ d.nick # old.nick
            /\ "roles" \in DOMAIN d => d.roles = old.roles)
           => /\ ~threw'
              /\ new # Absent
              /\ new.roles = old.roles
              /\ new.user = old.user
              /\ new.guildId = old.guildId
              /\ \A field \in DOMAIN old.raw \ DOMAIN d : new.raw[field] = old.raw[field]
              /\ new.nick = d.nick
              /\ emitted' = <<Notification("guildMemberUpdate",
                                           <<guilds'[d.guild_id], old, new>>)>>
              /\ emitted'[1].args[2].nick # emitted'[1].args[3].nick]_vars

C18_Witness ==
    /\ lastEvent.name = "GUILD_MEMBER_UPDATE"
    /\ "roles" \notin DOMAIN lastEvent.data
    /\ ~threw
    /\ before.members[1].nick = "nick"
    /\ before.members[1].roles = {1}
    /\ guilds[1].members[1].nick = "renamed"
    /\ guilds[1].members[1].roles = {1}
    /\ guilds[1].members[1].raw.joined_at = before.members[1].raw.joined_at
    /\ emitted[1].args[2] = before.members[1]
    /\ emitted[1].args[3] = guilds[1].members[1]

----------------------------------------------------------------------------
(* Properties of the delete handlers (checked under SpecDelete)             *)

DeleteEvent(ev) ==
    ev.name \in {"CHANNEL_DELETE", "GUILD_DELETE", "GUILD_MEMBER_REMOVE",
                 "GUILD_ROLE_DELETE", "MESSAGE_DELETE"}

\* what a lookup by the id a delete event names finds in the given stores
LookupDeleted(gc, dc, g, ev) ==
    LET d == ev.data
    IN  CASE ev.name = "CHANNEL_DELETE" ->
                MapGet(IF IsDMType(newChannelSwitch(d)) THEN dc ELSE gc, d.id)
          [] ev.name = "GUILD_DELETE" -> MapGet(g, d.id)
          [] ev.name = "GUILD_MEMBER_REMOVE" ->
                IF MapHas(g, d.guild_id)
                THEN MapGet(g[d.guild_id].members, d.user.id)
                ELSE Absent
          [] ev.name = "GUILD_ROLE_DELETE" ->
                IF MapHas(g, d.guild_id)
                THEN MapGet(g[d.guild_id].roles, d.role_id)
                ELSE Absent
          [] ev.name = "MESSAGE_DELETE" ->
                IF HasMessages(ChannelIn(gc, dc, d))
                THEN MapGet(ChannelIn(gc, dc, d).messages, d.id)
                ELSE Absent

\* the keys of every map of the given stores: the channels, the guilds, the
\* messages of each channel, the members and the roles of each guild
StoreKeys(gc, dc, g) ==
    {<<"guildChannels", c>> : c \in DOMAIN gc}
    \cup {<<"dmChannels", c>> : c \in DOMAIN dc}
    \cup {<<"guilds", x>> : x \in DOMAIN g}
    \cup UNION {{<<"messages", "guild", c, m>> : m \in DOMAIN gc[c].messages} :
                  c \in {x \in DOMAIN gc : HasMessages(gc[x])}}
    \cup UNION {{<<"messages", "dm", c, m>> : m \in DOMAIN dc[c].messages} :
                  c \in {x \in DOMAIN dc : HasMessages(dc[x])}}
    \cup UNION {{<<"members", x, u>> : u \in DOMAIN g[x].members} : x \in DOMAIN g}
    \cup UNION {{<<"roles", x, r>> : r \in DOMAIN g[x].roles} : x \in DOMAIN g}

\* C12: a delete event (CHANNEL_DELETE, GUILD_DELETE, GUILD_MEMBER_REMOVE,
\* GUILD_ROLE_DELETE, MESSAGE_DELETE) removes the entry before it notifies:
\* when its notification is observed a lookup by that id in the store finds
\* nothing, and no event other than a create or an update adds a key to a
\* store afterwards.
C12_DeletedBeforeNotified ==
    [][LET ev == lastEvent'
       IN  /\ (DeleteEvent(ev) /\ emitted' # <<>>)
              => LookupDeleted(guildChannels', dmChannels', guilds', ev) = Absent
           /\ (DeleteEvent(ev) \/ ev.name = "READY")
              => StoreKeys(guildChannels', dmChannels', guilds')
                    \subseteq StoreKeys(guildChannels, dmChannels, guilds)]_vars

C12_Witness ==
    /\ lastEvent.name = "MESSAGE_DELETE"
    /\ HasMessages(before)
    /\ DOMAIN before.messages = StoredMessageIds
    /\ MapHas(guilds, 1)
    /\ emitted # <<>>
    /\ emitted[1].name = "messageDelete"
    /\ LookupDeleted(guildChannels, dmChannels, guilds, lastEvent) = Absent
    /\ DOMAIN ChannelIn(guildChannels, dmChannels, lastEvent.data).messages
          = StoredMessageIds \ {lastEvent.data.id}

\* C13: MESSAGE_DELETE on a cached channel emits one messageDelete that
\* carries the message as it was cached immediately before the event when
\* the id was cached, and otherwise a stub of the wire identifiers (id,
\* channel id, guild id); every other message of the channel stays cached
\* unchanged.
C13_DeleteCarriesLastValueOrStub ==
    [][LET ev == lastEvent'
           d == ev.data
           channel == ChannelIn(guildChannels, dmChannels, d)
           after == ChannelIn(guildChannels', dmChannels', d)
       IN  (ev.name = "MESSAGE_DELETE" /\ HasMessages(channel))
           => /\ ~threw'
              /\ Len(emitted') = 1
              /\ emitted'[1].name = "messageDelete"
              /\ emitted'[1].args[2] =
                    IF MapHas(channel.messages, d.id)
                    THEN channel.messages[d.id]
                    ELSE [id |-> d.id, channelId |-> d.channel_id,
                          guildId |-> IF HasGuildId(d) THEN Snowflake(d.guild_id)
                                      ELSE Absent]
              /\ HasMessages(after)
              /\ DOMAIN after.messages = DOMAIN channel.messages \ {d.id}
              /\ \A m \in DOMAIN after.messages :
                    after.messages[m] = channel.messages[m]]_vars

C13_Witness ==
    /\ lastEvent.name = "MESSAGE_DELETE"
    /\ HasMessages(before)
    /\ DOMAIN before.messages = StoredMessageIds \ {lastEvent.data.id}
    /\ ~HasGuildId(lastEvent.data)
    /\ ~threw
    /\ emitted[1].args[2] = UnknownMessage(lastEvent.data)
    /\ ChannelIn(guildChannels, dmChannels, lastEvent.data).messages = before.messages

\* C14: CHANNEL_DELETE and GUILD_DELETE of a cached entity emit one
\* notification that carries the last known value, the value that was in the
\* store immediately before the event (a channel with its cached messages),
\* not a value rebuilt from the payload of the delete event.
C14_DeleteCarriesLastKnownValue ==
    [][LET ev == lastEvent'
           cached == LookupDeleted(guildChannels, dmChannels, guilds, ev)
       IN  (ev.name \in {"CHANNEL_DELETE", "GUILD_DELETE"} /\ cached # Absent)
           => /\ ~threw'
              /\ Len(emitted') = 1
              /\ emitted'[1].args[1] = cached]_vars

\* C15: GUILD_MEMBER_REMOVE and GUILD_ROLE_DELETE on a cached guild whose
\* member / role map never held the id complete, and their notification
\* carries a stub of the wire identifiers in the place of the member / role,
\* never an absent value.
C15_UncachedRemoveCarriesStub ==
    [][LET ev == lastEvent'
           d == ev.data
       IN  (/\ ev.name \in {"GUILD_MEMBER_REMOVE", "GUILD_ROLE_DELETE"}
            /\ MapHas(guilds, d.guild_id)
            /\ LookupDeleted(guildChannels, dmChannels, guilds, ev) = Absent)
           => /\ ~threw'
              /\ Len(emitted') = 1
              /\ emitted'[1].args[2] # Absent]_vars

Listed(ids) == {ids[i] : i \in 1..Len(ids)}

\* C29: MESSAGE_DELETE_BULK on a cached channel emits one messageDeleteBulk
\* whose map has exactly the listed ids as keys, each with the message cached
\* before the event or, if none was, the bare id; afterwards no listed id is in
\* the channel's message cache and every other cached message is as it was.
C29_BulkDeleteCarriesEachListed ==
    [][LET ev == lastEvent'
           d == ev.data
           channel == ChannelIn(guildChannels, dmChannels, d)
           after == ChannelIn(guildChannels', dmChannels', d)
       IN  (ev.name = "MESSAGE_DELETE_BULK" /\ HasMessages(channel))
           => /\ ~threw'
              /\ Len(emitted') = 1
              /\ emitted'[1].name = "messageDeleteBulk"
              /\ DOMAIN emitted'[1].args[2] = Listed(d.ids)
              /\ \A id \in Listed(d.ids) :
                    emitted'[1].args[2][id] =
                        IF MapHas(channel.messages, id)
                        THEN channel.messages[id]
                        ELSE Snowflake(id)
              /\ HasMessages(after)
              /\ DOMAIN after.messages = DOMAIN channel.messages \ Listed(d.ids)
              /\ \A m \in DOMAIN after.messages :
                    after.messages[m] = channel.messages[m]]_vars

\* messages 1 and 2 were cached and the event listed 1, 2 and the unknown 3
C29_Witness ==
    /\ lastEvent.name = "MESSAGE_DELETE_BULK"
    /\ lastEvent.data.ids = <<1, 2, 3>>
    /\ ~threw
    /\ HasMessages(before)
    /\ DOMAIN before.messages = StoredMessageIds
    /\ emitted[1].args[2][1] = before.messages[1]
    /\ emitted[1].args[2][3] = Snowflake(3)
    /\ ChannelIn(guildChannels, dmChannels, lastEvent.data).messages = EmptyMap

\* the channels of gc that were inserted for guild g
ChannelsOfGuild(gc, g) == {c \in DOMAIN gc : gc[c].guildId = Snowflake(g)}

\* C22: after GUILD_DELETE of a cached guild the guild is not in the guild
\* store and no channel inserted for that guild is in the channel store.
C22_GuildDeleteDestroysOwned ==
    [][(lastEvent'.name = "GUILD_DELETE" /\ MapHas(guilds, lastEvent'.data.id))
          => /\ ~MapHas(guilds', lastEvent'.data.id)
             /\ ChannelsOfGuild(guildChannels', lastEvent'.data.id) = {}]_vars

----------------------------------------------------------------------------
(* Properties of the channel kinds (checked under SpecKinds)                *)

\* the kind a channel type of the wire stands for
KindOfType(type) ==
    <<"text", "DM", "voice", "groupDM", "category", "news", "store">>[type + 1]

\* C17: after a CHANNEL_CREATE for id X of kind K a lookup of X in the channel
\* store returns a channel of kind K, in the DM-channel store for the DM and
\* group-DM kinds and in the guild-channel store for the server-scoped kinds,
\* and exactly one channelCreate notification is emitted for the event.
C17_CreatedChannelHasItsKind ==
    [][LET ev == lastEvent'
           d == ev.data
           kind == KindOfType(d.type)
           found == MapGet(IF kind \in {"DM", "groupDM"} THEN dmChannels'
                           ELSE guildChannels', d.id)
       IN  ev.name = "CHANNEL_CREATE"
           => /\ ~threw'
              /\ found # Absent
              /\ found.id = d.id
              /\ found.type = kind
              /\ Len(emitted') = 1
              /\ emitted' = <<Notification("channelCreate", <<found>>)>>]_vars

C17_Witness ==
    /\ lastEvent.name = "CHANNEL_CREATE"
    /\ lastEvent.data.type = 3
    /\ before # Absent
    /\ before.type = "DM"
    /\ MapHas(dmChannels, lastEvent.data.id)
    /\ dmChannels[lastEvent.data.id].type = "groupDM"
    /\ \E c \in DOMAIN guildChannels : guildChannels[c].type = "news"
    /\ emitted = <<Notification("channelCreate", <<dmChannels[lastEvent.data.id]>>)>>

----------------------------------------------------------------------------
(* Properties of the user store (checked under SpecUsers)                   *)

\* u maps id to a user of that id and that username
HoldsUser(u, id, payload) ==
    /\ MapHas(u, id)
    /\ u[id].id = payload.id
    /\ u[id].username = payload.username

OthersKept(u, after, id) ==
    /\ DOMAIN after = DOMAIN u \cup {id}
    /\ \A k \in DOMAIN u \ {id} : after[k] = u[k]

\* C23: after GUILD_BAN_ADD, GUILD_BAN_REMOVE or a TYPING_START with member
\* data the user store maps the user's id to the user of that payload, whatever
\* it held before, and keeps every other user; a TYPING_START without member
\* data leaves the user store as it was; no event removes a user.
C23_UserStoreLastWriteWins ==
    [][/\ lastEvent'.name \in {"GUILD_BAN_ADD", "GUILD_BAN_REMOVE"}
          => /\ HoldsUser(users', lastEvent'.data.user.id, lastEvent'.data.user)
             /\ OthersKept(users, users', lastEvent'.data.user.id)
       /\ (lastEvent'.name = "TYPING_START" /\ "member" \in DOMAIN lastEvent'.data)
          => /\ HoldsUser(users', lastEvent'.data.user_id, lastEvent'.data.member.user)
             /\ OthersKept(users, users', lastEvent'.data.user_id)
       /\ (lastEvent'.name = "TYPING_START" /\ "member" \notin DOMAIN lastEvent'.data)
          => users' = users
       /\ DOMAIN users \subseteq DOMAIN users']_vars

\* a TYPING_START with member data overwrote the user a ban had stored
C23_Witness ==
    /\ lastEvent.name = "TYPING_START"
    /\ "member" \in DOMAIN lastEvent.data
    /\ ~threw
    /\ before # Absent
    /\ before.username = "user"
    /\ users[lastEvent.data.user_id].username = "renamed"
    /\ DOMAIN users = UserIds

----------------------------------------------------------------------------
(* Properties of the request/response transport (checked under SpecRest)    *)

Settled == rest.phase = "settled" /\ rest.response # Absent

\* the outcome class of what request returned or raised
OutcomeClass(outcome) ==
    IF "returned" \in DOMAIN outcome
    THEN IF outcome.returned = Absent THEN "success-no-body" ELSE "success-with-body"
    ELSE IF outcome.raised.error = "DiscordJSONError" THEN "validation-error"
    ELSE IF outcome.raised.error # "HTTPError" THEN "none"
    ELSE CASE outcome.raised.message = "You supplied an invalid token" -> "invalid-credential"
           [] outcome.raised.message = "You don't have permission to do this" -> "forbidden"
           [] outcome.raised.message = "You are getting rate-limited" -> "rate-limited"
           [] outcome.raised.message \in {"Gateway unavailable. Wait and retry",
                                          "Discord internal error"} -> "server-fault"
           [] outcome.raised.message = "Unexpected response" -> "unclassified"
           [] OTHER -> "none"

\* the outcome class the status is to be mapped to
ClassOfStatus(status) ==
    CASE status \in {200, 201} -> "success-with-body"
      [] status = 204 -> "success-no-body"
      [] status \in {400, 404} -> "validation-error"
      [] status = 401 -> "invalid-credential"
      [] status = 403 -> "forbidden"
      [] status = 429 -> "rate-limited"
      [] status \in {500, 502, 503, 504, 507, 508} -> "server-fault"
      [] OTHER -> "unclassified"

\* C24: request maps the response status to one outcome: 200/201 return the
\* parsed body, 204 returns nothing, 400/404 raise the validation error with the
\* response's code and message, 401, 403, 429 and the server faults raise their
\* own error, every other status raises the fallback error, and each error
\* carries the status; no status other than 200, 201 and 204 returns a value.
C24_StatusMapsToOneOutcome ==
    Settled =>
        LET status == rest.response.status
            json == ParseJSON(rest.response.body)
            outcome == rest.outcome
        IN  /\ OutcomeClass(outcome) = ClassOfStatus(status)
            /\ status \in {200, 201} => outcome.returned = json
            /\ status \in {400, 404} => /\ outcome.raised.code = json.code
                                        /\ outcome.raised.message = json.message
            /\ status \notin {200, 201, 204} => /\ "returned" \notin DOMAIN outcome
                                                /\ outcome.raised.status = status

C24_Witness ==
    /\ Settled
    /\ rest.response.status = 404
    /\ rest.outcome.raised.error = "DiscordJSONError"
    /\ rest.outcome.raised.code = 10003
    /\ rest.request.method = "DELETE"

\* C25: a call of a RestClient method calls fetch exactly once, and a
\* rate-limited or server-fault response ends that call with the error raised,
\* no second request having been sent.
C25_OneTransportRequestPerCall ==
    /\ rest.phase # "idle" => rest.fetches = 1
    /\ (Settled /\ rest.response.status \in {429, 500, 502, 503, 504, 507, 508})
          => /\ "raised" \in DOMAIN rest.outcome
             /\ rest.outcome.raised.status = rest.response.status

C25_Witness ==
    /\ Settled
    /\ rest.response.status = 429
    /\ rest.fetches = 1
    /\ "raised" \in DOMAIN rest.outcome
    /\ rest.request.method = "PATCH"

\* C26: every request given to fetch, before Client.connect or after it,
\* carries the Authorization header made from the client's token.
C26_EveryRequestCarriesCredential ==
    [][(rest.phase # "fetching" /\ rest'.phase = "fetching")
          => /\ MapHas(rest'.request.headers, "Authorization")
             /\ rest'.request.headers["Authorization"] = <<"Bot ", rest.token>>]_vars

----------------------------------------------------------------------------
(* Properties of the Sessions (checked under SpecSessions)                  *)

\* C27: a Session in Connected whose last heartbeat is not acknowledged at
\* the next heartbeat tick leaves Connected for Resuming with the last known
\* session id and sequence; the failed resume attempts never reach
\* ResumeBudget without the Session falling back to a fresh Identifying cycle;
\* and a Session enters Connected only from Resuming by an accepted resume or
\* from Identifying by the answer to an identify it sent.
C27_MissedAckResumesThenIdentifies ==
    [][\A s \in Shards :
          LET old == gateway.sessions[s]
              new == gateway'.sessions[s]
              took(step) == new # old /\ new.last = step
          IN  /\ (old.state = "Connected" /\ ~old.acked /\ took("heartbeatTick"))
                 => /\ new.state = "Resuming"
                    /\ old.sessionId # Absent
                    /\ new.resume = [session_id |-> old.sessionId, seq |-> old.sequence]
              /\ new.attempts < ResumeBudget
              /\ (old.state = "Resuming" /\ took("resumeFails")
                    /\ old.attempts + 1 = ResumeBudget)
                 => /\ new.state = "Identifying"
                    /\ new.sessionId = Absent
                    /\ new.resume = Absent
              /\ (old.state # "Connected" /\ new.state = "Connected")
                 => \/ old.state = "Resuming" /\ old.resume # Absent
                       /\ took("resumeAccepted") /\ new.sessionId = old.sessionId
                    \/ old.state = "Identifying" /\ old.identify # "none"
                       /\ took("ready")]_vars

\* a Session whose heartbeat went unacknowledged has used up its resume
\* attempts and identifies anew
C27_Witness ==
    \E s \in Shards :
        /\ gateway.sessions[s].state = "Identifying"
        /\ gateway.sessions[s].last = "resumeFails"
        /\ gateway.sessions[s].sessionId = Absent
        /\ gateway.sessions[s].backoff > 0

\* C28: whatever the interleaving of the Sessions' connection attempts, no
\* two Sessions are in Identifying with an identify sent in the same window.
C28_OneIdentifyPerWindow ==
    \A s, t \in Shards :
        (/\ s # t
         /\ gateway.sessions[s].state = "Identifying"
         /\ gateway.sessions[t].state = "Identifying"
         /\ gateway.sessions[s].identify = "thisWindow")
            => gateway.sessions[t].identify # "thisWindow"

\* two Sessions are in Identifying with their identifies in flight, sent in
\* different windows
C28_Witness ==
    /\ gateway.gate = "closed"
    /\ \E s, t \in Shards :
          /\ gateway.sessions[s].state = "Identifying"
          /\ gateway.sessions[t].state = "Identifying"
          /\ gateway.sessions[s].identify = "thisWindow"
          /\ gateway.sessions[t].identify = "earlierWindow"

----------------------------------------------------------------------------
(* Properties of record and replay (checked under SpecReplay, SpecResume)   *)

ReplayDone == recorder.phase = "replay" /\ recorder.log = <<>>

C20_ResumeEquivalentToUninterrupted ==
    [][/\ lastEvent'.name \in {"RESUMED", "RECONNECT"}
          => /\ Stored' = Stored
             /\ emitted' = <<>>
             /\ ~threw'
       /\ (ReplayDone' /\ recorder'.interruptedAfter # {})
          => Stored' = recorder'.live]_vars

C20_Witness ==
    /\ ReplayDone
    /\ recorder.interruptedAfter = {2}
    /\ lastEvent.name = "MESSAGE_CREATE"
    /\ ~threw
    /\ Stored = recorder.live
    /\ guildChannels # EmptyMap \/ dmChannels # EmptyMap

----------------------------------------------------------------------------
(* Mirrored reactions: the stream of one session in which message 1 is      *)
(* cached in channel 1 (text, guild 1) and in channel 2 (DM), and every     *)
(* MESSAGE_REACTION_ADD and MESSAGE_REACTION_REMOVE about the message in    *)
(* channel 1 is followed by the same event (same user, same emoji) about    *)
(* the message in channel 2: the two messages receive the same sequence.    *)

NextMirror ==
    \/ \E d \in ReadyPayloads : ~Connected /\ Ready(d)
    \/ \E d \in ChannelPayloads :
          /\ ~MapHas(guildChannels, d.id)
          /\ ~MapHas(dmChannels, d.id)
          /\ ChannelCreate(d)
    \/ \E d \in MessagePayloads :
          /\ MessageIn(guildChannels, dmChannels, d @@ [message_id |-> d.id]) = Absent
          /\ MessageCreate(d)
    \/ \E d \in ReactionPayloads :
          /\ HasGuildId(d)
          /\ ~(lastEvent.name \in {"MESSAGE_REACTION_ADD", "MESSAGE_REACTION_REMOVE"}
               /\ HasGuildId(lastEvent.data))
          /\ MessageIn(guildChannels, dmChannels, d) # Absent
          /\ MessageIn(guildChannels, dmChannels,
                       [channel_id |-> 2, message_id |-> d.message_id]) # Absent
          /\ MessageReactionAdd(d)
    \/ \E d \in ReactionPayloads :
          /\ ~HasGuildId(d)
          /\ lastEvent = Event("MESSAGE_REACTION_ADD", Scoped(1, [d EXCEPT !.channel_id = 1]))
          /\ MessageReactionAdd(d)
    \/ \E d \in ReactionPayloads :
          /\ HasGuildId(d)
          /\ ~(lastEvent.name \in {"MESSAGE_REACTION_ADD", "MESSAGE_REACTION_REMOVE"}
               /\ HasGuildId(lastEvent.data))
          /\ MessageIn(guildChannels, dmChannels, d) # Absent
          /\ MessageIn(guildChannels, dmChannels,
                       [channel_id |-> 2, message_id |-> d.message_id]) # Absent
          /\ MessageReactionRemove(d)
    \/ \E d \in ReactionPayloads :
          /\ ~HasGuildId(d)
          /\ lastEvent = Event("MESSAGE_REACTION_REMOVE",
                               Scoped(1, [d EXCEPT !.channel_id = 1]))
          /\ MessageReactionRemove(d)

SpecMirror == Init /\ [][NextMirror]_vars

----------------------------------------------------------------------------
(* Properties of the mirrored reactions (checked under SpecMirror)          *)

\* C31: a message cached in a guild channel and a message cached in a DM
\* channel that have received the same sequence of reaction add and remove
\* events have the same reaction map: the same keys, counts and flags.
C31_GuildAndDMReactionsAgree ==
    LET inGuild == MessageIn(guildChannels, dmChannels,
                             [guild_id |-> 1, channel_id |-> 1, message_id |-> 1])
        inDM == MessageIn(guildChannels, dmChannels,
                          [channel_id |-> 2, message_id |-> 1])
    IN  (/\ inGuild # Absent
         /\ inDM # Absent
         /\ ~(lastEvent.name \in {"MESSAGE_REACTION_ADD", "MESSAGE_REACTION_REMOVE"}
              /\ HasGuildId(lastEvent.data)))
        => inGuild.reactions = inDM.reactions

----------------------------------------------------------------------------
(* Properties of what an update leaves alone                                *)

\* C33: a CHANNEL_UPDATE for a cached text-based channel keeps the channel's
\* message cache; every message cached in the channel before the update is
\* found under the same channel id and message id after it.  (Checked
\* under SpecDesync.)
C33_ChannelUpdateKeepsMessages ==
    [][LET ev == lastEvent'
           old == IF MapHas(guildChannels, ev.data.id)
                  THEN guildChannels[ev.data.id]
                  ELSE MapGet(dmChannels, ev.data.id)
           after == IF MapHas(guildChannels', ev.data.id)
                    THEN guildChannels'[ev.data.id]
                    ELSE MapGet(dmChannels', ev.data.id)
       IN  (ev.name = "CHANNEL_UPDATE" /\ HasMessages(old))
           => \A m \in DOMAIN old.messages :
                 /\ HasMessages(after)
                 /\ MapHas(after.messages, m)]_vars

\* the keys of the entries a GUILD_UPDATE payload carries in one of its lists
PayloadKeys(d, list) ==
    CASE list \notin DOMAIN d -> {}
      [] list = "members" -> DOMAIN MemberMap(d.members, d.id)
      [] list = "roles" -> DOMAIN RoleMap(d.roles, d.id)
      [] list = "presences" -> DOMAIN PresenceMap(d.presences)
      [] list = "emojis" -> DOMAIN EmojiMap(d.emojis)

\* C34: a GUILD_UPDATE for a cached guild keeps the guild's member, role,
\* presence and emoji maps; every entry the stored guild held before the
\* update is still present in the stored guild after it, unless the payload
\* itself carries an entry under the same key.  (Checked under SpecLifecycle.)
C34_GuildUpdateKeepsNestedMaps ==
    [][LET ev == lastEvent'
           old == MapGet(guilds, ev.data.id)
           after == MapGet(guilds', ev.data.id)
       IN  (ev.name = "GUILD_UPDATE" /\ old # Absent)
           => /\ after # Absent
              /\ \A list \in {"members", "roles", "presences", "emojis"} :
                    DOMAIN old[list] \ PayloadKeys(ev.data, list)
                        \subseteq DOMAIN after[list]]_vars

====
